---------------------------- MODULE Spec2Model ----------------------------
(* Tiered memory and de-duplication of the AI twitter agent.               *)
(*                                                                         *)
(* Texts are TLA+ strings, handled character by character, so that         *)
(* normalizeQuery, sanitizeTweet and classifyContext are computed as the    *)
(* source computes them.  The stores (MongoDB collections, the Pinecone    *)
(* index) are functions from keys to documents.  Every exported handler is *)
(* one action; failures of the collaborators are inputs of the action.     *)
EXTENDS Integers, Sequences, FiniteSets, Bags, TLC

VARIABLES
  pin,        \* input text of the pure-function harness
  pout,       \* what the last pure function applied to pin returned
  longTerm,   \* Mongo 'long_term_memory': normalized query -> row
  pinecone,   \* Pinecone index: vector id -> [values, metadata]
  session,    \* Mongo 'session_messages': username -> list of messages
  tweets,     \* Mongo 'tweets': the bag of its documents
  posted,     \* the bag of texts published on Twitter
  users,      \* Mongo 'users': username -> cached [id, cachedAt]
  now,        \* the clock, in ticks of 15 minutes
  humanLoop,  \* lastTweetBatch and tweetsPosted of the Puppeteer loop
  admits,     \* per caller: its call of addOrUpdateLongTermMemory in flight
  repliedMentions, \* Mongo 'replied_mentions': the bag of its rows
  mentionReplies,  \* the bag of mention ids checkLatestMentions replied to
  updates,    \* per caller: its call of updateSessionMessages in flight
  apiLoop,    \* the while loop of the API startHumanLoop
  puppetLoop, \* the while loop of the Puppeteer startHumanLoop
  calls,      \* number of handler calls made so far
  last        \* observation of the last handler call

pureVars == <<pin, pout>>
memVars  == <<longTerm, pinecone, session>>
tweetVars == <<tweets, posted>>
agentVars == <<users, now, humanLoop>>
lateVars == <<repliedMentions, mentionReplies, updates, apiLoop, puppetLoop>>
vars ==
  <<pin, pout, longTerm, pinecone, session, tweets, posted, users, now, humanLoop,
    admits, repliedMentions, mentionReplies, updates, apiLoop, puppetLoop, calls,
    last>>

-----------------------------------------------------------------------------
(* Bounds of the exploration *)

\* longest input text of the pure-function harness
MaxLen == 4
\* handler calls explored per behaviour
MaxCalls == 3
\* handler calls explored per behaviour when collaborators may fail
MaxFaultCalls == 2
\* direct admissions explored per behaviour of the wide index
MaxWideCalls == 8
MaxTweetCalls == 3
MaxPublishCalls == 2
\* calls of addOrUpdateLongTermMemory started per behaviour of the
\* interleaved callers
MaxConcurrentCalls == 3
\* pieces a text given to the classifier is made of
MaxPieces == 3
MaxNow == 12
MaxCacheCalls == 3
MaxMentionCalls == 2
MaxSessionCalls == 3
MaxActorCalls == 3
MaxQuotaRounds == 6
MaxQuotaNow == 12
MaxLoopCycles == 3
MaxCacheNow == 3

-----------------------------------------------------------------------------
(* Characters and strings *)

\* what String.prototype.trim strips (the part of it the inputs use)
WhiteSpace == {" ", "\t", "\n"}

\* the quote characters of /^["']|["']$/g
QuoteChars == {"\"", "'"}

LowerChar(c) ==
  CASE c = "A" -> "a" [] c = "B" -> "b" [] c = "C" -> "c" [] c = "D" -> "d"
    [] c = "E" -> "e" [] c = "F" -> "f" [] c = "G" -> "g" [] c = "H" -> "h"
    [] c = "I" -> "i" [] c = "J" -> "j" [] c = "K" -> "k" [] c = "L" -> "l"
    [] c = "M" -> "m" [] c = "N" -> "n" [] c = "O" -> "o" [] c = "P" -> "p"
    [] c = "Q" -> "q" [] c = "R" -> "r" [] c = "S" -> "s" [] c = "T" -> "t"
    [] c = "U" -> "u" [] c = "V" -> "v" [] c = "W" -> "w" [] c = "X" -> "x"
    [] c = "Y" -> "y" [] c = "Z" -> "z" [] OTHER -> c

RECURSIVE toLowerCase(_)
toLowerCase(s) ==
  IF s = "" THEN "" ELSE LowerChar(Head(s)) \o toLowerCase(Tail(s))

LastChar(s) == SubSeq(s, Len(s), Len(s))
DropLast(s) == SubSeq(s, 1, Len(s) - 1)

RECURSIVE trimStart(_)
trimStart(s) ==
  IF s # "" /\ Head(s) \in WhiteSpace THEN trimStart(Tail(s)) ELSE s

RECURSIVE trimEnd(_)
trimEnd(s) ==
  IF s # "" /\ LastChar(s) \in WhiteSpace THEN trimEnd(DropLast(s)) ELSE s

trim(s) == trimEnd(trimStart(s))

\* s.includes(pat), the meaning of an unanchored literal regex
Contains(s, pat) ==
  \E i \in 1..(Len(s) - Len(pat) + 1) : SubSeq(s, i, i + Len(pat) - 1) = pat

ContainsAny(s, pats) == \E p \in pats : Contains(s, p)

-----------------------------------------------------------------------------
(* The texts the handlers are called with *)

\* Query1 and Query1b normalize to the same key; Query2 and Query3 are
\* paraphrases of it in the same context; Query4 is close to it but
\* classified with another tone.
Query1  == "What is Beskar?"
Query1b == "  what is beskar? "
Query2  == "beskar, what is it"
Query3  == "how strong is beskar"
Query4  == "what is beskar lol"
Queries == {Query1, Query1b, Query2, Query3, Query4}

\* Four more texts close to Query2 and classified with another tone
Filler1 == "what is beskar haha"
Filler2 == "what is beskar, friend"
Filler3 == "what is beskar, love"
Filler4 == "what is beskar (smile)"
WideQueries == {Query1, Query2, Query4, Filler1, Filler2, Filler3, Filler4}

\* the texts whose normal form and context are computed once and looked up
\* afterwards (any other text is computed on the spot)
KnownTexts ==
  LET raw == Queries \cup WideQueries
  IN  raw \cup {toLowerCase(trim(q)) : q \in raw}

-----------------------------------------------------------------------------
(* The two normalizers *)

NormalizedTexts == [q \in KnownTexts |-> toLowerCase(trim(q))]

\* q.trim().toLowerCase()
normalizeQuery(q) ==
  IF q \in KnownTexts THEN NormalizedTexts[q] ELSE toLowerCase(trim(q))

\* content.replace(/^["']|["']$/g, ''): with the g flag the regex removes one
\* quote at the start and one quote at the end, and no more.
StripOuterQuotes(content) ==
  LET s1 == IF content # "" /\ Head(content) \in QuoteChars
            THEN Tail(content) ELSE content
  IN  IF s1 # "" /\ LastChar(s1) \in QuoteChars THEN DropLast(s1) ELSE s1

\* what the stream of generateSelfTweet may hold
TweetStreams == {"This is the Way.", "this is the way", " \"Honor is armor.\" "}

\* the texts the generator writes in the rounds of the Puppeteer loop
QuotaTexts == {"a", "b", "c", "d", "e", "f"}

\* contents a direct caller passes to postTweet and storeTweet
TweetContents == {"This is the Way.", "'This is the Way.'"}

\* what a trend page may show
ScrapedPages ==
  { << >>,
    <<[username |-> "din", text |-> "This is the Way"]>>,
    <<[username |-> "din", text |-> "This is the Way"],
      [username |-> "grogu", text |-> "this is the way!"]>> }

SanitizeRules(content) == toLowerCase(trim(StripOuterQuotes(content)))

\* the texts of the tweet inputs
\* the texts of the timelines a user is engaged with
TimelineTexts == {"I have spoken.", "This is the Way"}

RawTweetTexts ==
  TweetStreams \cup TweetContents \cup QuotaTexts \cup TimelineTexts
    \cup UNION {{p[i].text : i \in 1..Len(p)} : p \in ScrapedPages}

\* the texts of the tweet inputs, raw and sanitized once and twice
KnownTweetTexts ==
  RawTweetTexts
    \cup {SanitizeRules(t) : t \in RawTweetTexts}
    \cup {SanitizeRules(SanitizeRules(t)) : t \in RawTweetTexts}

SanitizedTexts == [t \in KnownTweetTexts |-> SanitizeRules(t)]

\* content.replace(/^["']|["']$/g, '').trim().toLowerCase()
sanitizeTweet(content) ==
  IF content \in KnownTweetTexts THEN SanitizedTexts[content] ELSE SanitizeRules(content)

-----------------------------------------------------------------------------
(* classifyContext: ordered pattern rules, first match wins *)

IntentPatterns ==
  {"?", "what", "why", "how", "who", "when", "is", "are", "do", "does", "should"}

\* /star\s?wars/: "star", at most one white-space character, "wars"
StarWarsPatterns ==
  {"starwars"} \cup {"star" \o w \o "wars" : w \in WhiteSpace}

TopicRules ==
  << [topic |-> "crypto", pats |-> {"solana", "eth", "btc", "pump.fun", "crypto"}],
     [topic |-> "starwars",
      pats |-> StarWarsPatterns \cup {"mandalorian", "jedi", "sith", "grogu", "beskar"}],
     [topic |-> "anime", pats |-> {"anime", "manga", "ghibli", "otaku"}],
     [topic |-> "music", pats |-> {"music", "song", "album", "track", "playlist"}],
     [topic |-> "movie", pats |-> {"movie", "film", "director", "cinema"}],
     [topic |-> "celebrity", pats |-> {"actor", "actress", "celebrity", "famous", "idol"}],
     [topic |-> "tech", pats |-> {"tech", "software", "engineer", "developer", "app"}],
     [topic |-> "alien", pats |-> {"alien", "conspiracy", "galaxy", "ufo"}],
     [topic |-> "popculture", pats |-> {"pop", "trend", "meme", "viral", "culture"}] >>

ToneRules ==
  << [tone |-> "empathetic",
      pats |-> {"hug", "love", "care", "whisper", "sweet", "friend", "heart",
                "smile", "lol", "haha", "funny"}],
     [tone |-> "playful",
      pats |-> {"joke", "play", "tease", "fun", "wink", "lmao", "rofl"}],
     [tone |-> "serious",
      pats |-> {"war", "battle", "honor", "duty", "survive", "fight", "serious", "code"}] >>

\* a chain in which the last matching rule wins
RECURSIVE LastTopic(_, _)
LastTopic(q, i) ==
  IF i > Len(TopicRules) THEN "other"
  ELSE IF LastTopic(q, i + 1) # "other" THEN LastTopic(q, i + 1)
  ELSE IF ContainsAny(q, TopicRules[i].pats) THEN TopicRules[i].topic
  ELSE "other"

\* the conditional chain  r1 ? v1 : r2 ? v2 : ... : dflt  from rule i on
RECURSIVE FirstTopic(_, _)
FirstTopic(q, i) ==
  IF i > Len(TopicRules) THEN "other"
  ELSE IF ContainsAny(q, TopicRules[i].pats) THEN TopicRules[i].topic
  ELSE FirstTopic(q, i + 1)

RECURSIVE FirstTone(_, _)
FirstTone(q, i) ==
  IF i > Len(ToneRules) THEN "neutral"
  ELSE IF ContainsAny(q, ToneRules[i].pats) THEN ToneRules[i].tone
  ELSE FirstTone(q, i + 1)

\* a classifier that does not lower the case of the text first
ClassifyCaseSensitive(query) ==
  [intent |-> IF ContainsAny(query, IntentPatterns) THEN "question" ELSE "statement",
   topic  |-> FirstTopic(query, 1),
   tone   |-> FirstTone(query, 1)]

ClassifyRules(query) ==
  LET q == toLowerCase(query)
  IN  [intent |-> IF ContainsAny(q, IntentPatterns) THEN "question" ELSE "statement",
       topic  |-> FirstTopic(q, 1),
       tone   |-> FirstTone(q, 1)]

KnownContexts == [q \in KnownTexts |-> ClassifyRules(q)]

classifyContext(query) ==
  IF query \in KnownTexts THEN KnownContexts[query] ELSE ClassifyRules(query)

-----------------------------------------------------------------------------
(* The collaborators: embedding provider and vector index *)

ReadThreshold  == 8500   \* 0.85, in units of 1/10000
WriteThreshold == 9800   \* 0.98
TopK == 5

\* getEmbedding(text): the provider's vector for a text.  The vector is
\* opaque; what the index computes from two of them is their cosine.
getEmbedding(text) == [model |-> "text-embedding-ada-002", of |-> text]

\* Cosine similarity of the provider's vectors for the texts above, in units
\* of 1/10000 (an input of the model: the provider decides it).
SimilarityTable ==
  { <<"what is beskar?", "beskar, what is it", 9800>>,
    <<"what is beskar?", "how strong is beskar", 8500>>,
    <<"beskar, what is it", "how strong is beskar", 8499>>,
    <<"what is beskar?", "what is beskar lol", 9900>>,
    <<"beskar, what is it", "what is beskar lol", 9900>>,
    <<"how strong is beskar", "what is beskar lol", 8600>>,
    <<"beskar, what is it", "what is beskar haha", 9900>>,
    <<"beskar, what is it", "what is beskar, friend", 9900>>,
    <<"beskar, what is it", "what is beskar, love", 9900>>,
    <<"beskar, what is it", "what is beskar (smile)", 9900>>,
    <<"this is the way.", "this is the way", 9900>>,
    <<"This is the Way", "this is the way!", 9900>> }

Cosine(v1, v2) ==
  IF v1.of = v2.of THEN 10000
  ELSE LET hits == {t \in SimilarityTable :
                      \/ t[1] = v1.of /\ t[2] = v2.of
                      \/ t[1] = v2.of /\ t[2] = v1.of}
       IN  IF hits = {} THEN 5000 ELSE (CHOOSE t \in hits : TRUE)[3]

NoFilter == [any |-> TRUE]

\* whether an entry's metadata passes a Pinecone metadata filter
PassesFilter(metadata, filter) ==
  \/ filter = NoFilter
  \/ /\ filter # NoFilter
     /\ \A f \in DOMAIN filter : f \in DOMAIN metadata /\ metadata[f] = filter[f]

Match(index, id, vector) ==
  [id |-> id, score |-> Cosine(vector, index[id].values), metadata |-> index[id].metadata]

\* every order in which the best k of the candidates can come back: by
\* descending score, entries of equal score in any order
RECURSIVE RankedResults(_, _)
RankedResults(cands, k) ==
  IF k = 0 \/ cands = {} THEN {<< >>}
  ELSE LET best == {m \in cands : \A o \in cands : o.score <= m.score}
       IN  UNION { {<<m>> \o rest : rest \in RankedResults(cands \ {m}, k - 1)} : m \in best }

\* pineconeIndex.query({vector, topK, includeMetadata, filter}): the answers
\* the index may give
QueryResults(index, vector, topK, filter) ==
  RankedResults({Match(index, id, vector) :
                   id \in {i \in DOMAIN index : PassesFilter(index[i].metadata, filter)}},
                topK)

\* Array.prototype.find: the first element whose index is in hits (the
\* indices satisfying the predicate), or NoMatch (undefined)
NoMatch == [id |-> "none"]

\* a find that never finds
FindNothing(matches, hits) == NoMatch

Find(matches, hits) ==
  IF hits = {} THEN NoMatch
  ELSE matches[CHOOSE i \in hits : \A j \in hits : i <= j]

-----------------------------------------------------------------------------
(* Buffer.from(text).toString('base64'), the id of a vector entry *)

\* the printable ASCII characters from '#' (35) to '[' (91)
AsciiFrom35 ==
  "#$%&'()*+,-./0123456789:;<=>?@ABCDEFGHIJKLMNOPQRSTUVWXYZ["

\* the printable ASCII characters from 'a' (97) to '~' (126)
AsciiFrom97 == "abcdefghijklmnopqrstuvwxyz{|}~"

Base64Alphabet ==
  "ABCDEFGHIJKLMNOPQRSTUVWXYZabcdefghijklmnopqrstuvwxyz0123456789+/"

IndexIn(table, c) == CHOOSE i \in 1..Len(table) : SubSeq(table, i, i) = c

\* the UTF-8 byte of a character of the inputs (all of them are ASCII)
CharCode(c) ==
  CASE c = "\t" -> 9
    [] c = "\n" -> 10
    [] c = " "  -> 32
    [] c = "!"  -> 33
    [] c = "\"" -> 34
    [] Contains(AsciiFrom35, c) -> 34 + IndexIn(AsciiFrom35, c)
    [] c = "]"  -> 93
    [] c = "^"  -> 94
    [] c = "_"  -> 95
    [] OTHER -> 96 + IndexIn(AsciiFrom97, c)

Sextet(n) == SubSeq(Base64Alphabet, n + 1, n + 1)

RECURSIVE Base64Of(_)
Base64Of(text) ==
  LET n  == Len(text)
      b1 == CharCode(SubSeq(text, 1, 1))
      b2 == CharCode(SubSeq(text, 2, 2))
      b3 == CharCode(SubSeq(text, 3, 3))
  IN  IF n = 0 THEN ""
      ELSE IF n = 1 THEN
        Sextet(b1 \div 4) \o Sextet((b1 % 4) * 16) \o "=="
      ELSE IF n = 2 THEN
        Sextet(b1 \div 4) \o Sextet((b1 % 4) * 16 + b2 \div 16)
          \o Sextet((b2 % 16) * 4) \o "="
      ELSE
        Sextet(b1 \div 4) \o Sextet((b1 % 4) * 16 + b2 \div 16)
          \o Sextet((b2 % 16) * 4 + b3 \div 64) \o Sextet(b3 % 64)
          \o Base64Of(SubSeq(text, 4, n))

KnownIds == [t \in KnownTexts \cup KnownTweetTexts |-> Base64Of(t)]

\* Buffer.from(text).toString('base64')
Base64(text) == IF text \in DOMAIN KnownIds THEN KnownIds[text] ELSE Base64Of(text)

-----------------------------------------------------------------------------
(* Failures of the collaborators, chosen per handler call *)

FaultPoints ==
  {"mongoRead",     \* the findOne of the exact lookup
   "mongoExists",   \* the findOne of the backfill's existence check
   "mongoWrite",    \* the updateOne of the long-term row
   "embedLookup",   \* getEmbedding in queryPineconeSimilarity
   "queryLookup",   \* pineconeIndex.query in queryPineconeSimilarity
   "embedAdmit",    \* getEmbedding in addOrUpdateLongTermMemory
   "queryAdmit",    \* pineconeIndex.query in addOrUpdateLongTermMemory
   "upsert",        \* pineconeIndex.upsert
   "sessionRead",   \* getSessionMessages before the generator
   "generator",     \* streamText
   "sessionUpdate"} \* updateSessionMessages

\* an input that is no failure: the index answers a filtered query with
\* entries the filter excludes (near-misses)
FilterLeak == "filterLeak"


-----------------------------------------------------------------------------
(* utils/memory.ts *)

NoRow == [none |-> TRUE]

\* what JavaScript reads from a metadata field that may be absent
Field(metadata, f) == IF f \in DOMAIN metadata THEN metadata[f] ELSE "undefined"

\* truthiness of a string
Truthy(text) == text # "" /\ text # "undefined"

getSessionMessages(sess, username) ==
  IF username \in DOMAIN sess THEN sess[username] ELSE << >>

\* updateOne({username}, {$set: {messages: [...existing, ...newMessages]}}, upsert)
updateSessionMessages(sess, username, newMessages) ==
  LET existing == getSessionMessages(sess, username)
      updatedMessages == existing \o newMessages
  IN  [u \in DOMAIN sess \cup {username} |->
         IF u = username THEN updatedMessages ELSE sess[u]]

\* a search that finds no row, whatever the collection holds
SearchFindsNothing(lt, username, query, readFails) == NoRow

\* a search whose filter holds the username next to the query
SearchScopedByActor(lt, username, query, readFails) ==
  IF readFails THEN NoRow
  ELSE IF normalizeQuery(query) \in DOMAIN lt
          /\ lt[normalizeQuery(query)].username = username
    THEN lt[normalizeQuery(query)]
  ELSE NoRow

\* findOne({query: normalized}); a Mongo error is caught and answered null
searchValidCachedMemory(lt, username, query, readFails) ==
  LET normalized == normalizeQuery(query)
  IN  IF readFails THEN NoRow
      ELSE IF normalized \in DOMAIN lt THEN lt[normalized]
      ELSE NoRow

\* the row $set by the upsert (its date fields are not modelled)
MemoryRow(username, summary, normalized, response, ctx) ==
  [username |-> username, query |-> normalized, summary |-> summary,
   response |-> response, intent |-> ctx.intent, topic |-> ctx.topic,
   tone |-> ctx.tone]

VectorEntry(normalized, embedding, summary, response, ctx) ==
  [values   |-> embedding,
   metadata |-> [query |-> normalized, summary |-> summary, response |-> response,
                 intent |-> ctx.intent, topic |-> ctx.topic, tone |-> ctx.tone]]

Upsert(f, key, value) ==
  [k \in DOMAIN f \cup {key} |-> IF k = key THEN value ELSE f[k]]

\* a duplicate test that uses the read threshold in place of the write threshold
NearDuplicateAtReadThreshold(m, ctx) ==
  /\ m.score >= ReadThreshold
  /\ Field(m.metadata, "intent") = ctx.intent
  /\ Field(m.metadata, "topic") = ctx.topic
  /\ Field(m.metadata, "tone") = ctx.tone

\* m => score >= 0.98 && metadata.intent/topic/tone === intent/topic/tone
IsNearDuplicate(m, ctx) ==
  /\ m.score >= WriteThreshold
  /\ Field(m.metadata, "intent") = ctx.intent
  /\ Field(m.metadata, "topic") = ctx.topic
  /\ Field(m.metadata, "tone") = ctx.tone

\* an admission that writes the row only when it also writes the vector entry
AdmitRowWithVector(lt, pc, username, summary, query, response, faults, matches) ==
  LET normalized == normalizeQuery(query)
      ctx        == classifyContext(query)
      matched    == Find(matches,
                         {i \in 1..Len(matches) : IsNearDuplicate(matches[i], ctx)})
  IN  IF matched # NoMatch
      THEN [longTerm |-> lt, pinecone |-> pc, error |-> "none", vector |-> "skipped"]
      ELSE [longTerm |-> Upsert(lt, normalized,
                                MemoryRow(username, summary, normalized, response, ctx)),
            pinecone |-> Upsert(pc, Base64(normalized),
                                VectorEntry(normalized, getEmbedding(normalized),
                                            summary, response, ctx)),
            error |-> "none", vector |-> "upserted"]

\* an admission whose vector id is derived from the raw query
AdmitWithRawId(lt, pc, username, summary, query, response, faults, matches) ==
  [longTerm |-> Upsert(lt, normalizeQuery(query),
                       MemoryRow(username, summary, normalizeQuery(query), response,
                                 classifyContext(query))),
   pinecone |-> Upsert(pc, Base64(query),
                       VectorEntry(normalizeQuery(query),
                                   getEmbedding(normalizeQuery(query)),
                                   summary, response, classifyContext(query))),
   error |-> "none", vector |-> "upserted"]

\* addOrUpdateLongTermMemory, given the answer `matches` of its index query:
\* the stores it leaves, the failure it threw ("none": it returned) and what
\* it did to the index
AdmitWith(lt, pc, username, summary, query, response, faults, matches) ==
  LET normalized == normalizeQuery(query)
      ctx        == classifyContext(query)
      lt1        == Upsert(lt, normalized,
                           MemoryRow(username, summary, normalized, response, ctx))
      embedding  == getEmbedding(normalized)
      matched    == Find(matches,
                         {i \in 1..Len(matches) : IsNearDuplicate(matches[i], ctx)})
      pc1        == Upsert(pc, Base64(normalized),
                           VectorEntry(normalized, embedding, summary, response, ctx))
  IN  IF "mongoWrite" \in faults THEN
        [longTerm |-> lt, pinecone |-> pc, error |-> "mongoWrite", vector |-> "none"]
      ELSE IF "embedAdmit" \in faults THEN
        [longTerm |-> lt1, pinecone |-> pc, error |-> "embedAdmit", vector |-> "none"]
      ELSE IF "queryAdmit" \in faults THEN
        [longTerm |-> lt1, pinecone |-> pc, error |-> "queryAdmit", vector |-> "none"]
      ELSE IF matched # NoMatch THEN
        [longTerm |-> lt1, pinecone |-> pc, error |-> "none", vector |-> "skipped"]
      ELSE IF "upsert" \in faults THEN
        [longTerm |-> lt1, pinecone |-> pc, error |-> "upsert", vector |-> "none"]
      ELSE
        [longTerm |-> lt1, pinecone |-> pc1, error |-> "none", vector |-> "upserted"]

\* every way a call of addOrUpdateLongTermMemory can end (the index query is
\* not filtered)
addOrUpdateLongTermMemory(lt, pc, username, summary, query, response, faults) ==
  { AdmitWith(lt, pc, username, summary, query, response, faults, matches) :
      matches \in QueryResults(pc, getEmbedding(normalizeQuery(query)), TopK, NoFilter) }

-----------------------------------------------------------------------------
(* lib/pinecone.ts *)

\* null, where a string is expected
Null == "<null>"

\* a test that accepts only scores strictly above the threshold
MatchStrictlyAbove(m, threshold, ctx) ==
  /\ m.score > threshold
  /\ Field(m.metadata, "intent") = ctx.intent
  /\ Field(m.metadata, "topic") = ctx.topic
  /\ Field(m.metadata, "tone") = ctx.tone

\* a test of the score, the intent and the topic that leaves the tone out
MatchWithoutTone(m, threshold, ctx) ==
  /\ m.score >= threshold
  /\ Field(m.metadata, "intent") = ctx.intent
  /\ Field(m.metadata, "topic") = ctx.topic

\* m => score >= threshold && metadata.intent/topic/tone === intent/topic/tone
\* (no type is passed, so the type test is always true)
IsSemanticMatch(m, threshold, ctx) ==
  /\ m.score >= threshold
  /\ Field(m.metadata, "intent") = ctx.intent
  /\ Field(m.metadata, "topic") = ctx.topic
  /\ Field(m.metadata, "tone") = ctx.tone

NoAdmit == [called |-> FALSE]

\* what a call of addOrUpdateLongTermMemory was given and how it ended
AdmitObs(adm, summary, response) ==
  [called |-> TRUE, error |-> adm.error, vector |-> adm.vector,
   summary |-> summary, response |-> response]

\* queryPineconeSimilarity from the answer `matches` of its index query on:
\* every way it can end.  saveToMongo is addOrUpdateLongTermMemory and
\* checkMongoExists is !!searchValidCachedMemory, as generateReply passes them.
SimilarityWith(lt, pc, userId, normalized, threshold, ctx, faults, matches) ==
  LET match == Find(matches,
                    {i \in 1..Len(matches) : IsSemanticMatch(matches[i], threshold, ctx)})
      found    == match # NoMatch /\ Truthy(Field(match.metadata, "response"))
      response == match.metadata.response
      summary  == IF "summary" \in DOMAIN match.metadata
                  THEN match.metadata.summary ELSE response
      exists   == searchValidCachedMemory(lt, userId, normalized,
                                          "mongoExists" \in faults) # NoRow
  IN  IF ~found THEN
        {[error |-> "none", response |-> Null, longTerm |-> lt, pinecone |-> pc,
          match |-> NoMatch, candidates |-> matches, admit |-> NoAdmit]}
      ELSE IF exists THEN
        {[error |-> "none", response |-> response, longTerm |-> lt, pinecone |-> pc,
          match |-> match, candidates |-> matches, admit |-> NoAdmit]}
      ELSE
        {[error |-> adm.error,
          response |-> IF adm.error = "none" THEN response ELSE Null,
          longTerm |-> adm.longTerm, pinecone |-> adm.pinecone,
          match |-> match, candidates |-> matches,
          admit |-> AdmitObs(adm, summary, response)] :
           adm \in addOrUpdateLongTermMemory(lt, pc, userId, summary, normalized,
                                             response, faults)}

\* the filter of the index query: intent, topic and tone (type is undefined)
LookupFilter(ctx) == [intent |-> ctx.intent, topic |-> ctx.topic, tone |-> ctx.tone]

\* queryPineconeSimilarity(userId, query, threshold, () => intent, ..., {topic})
queryPineconeSimilarity(lt, pc, userId, query, threshold, intent, topic, faults) ==
  LET normalized == normalizeQuery(query)
      embedding  == getEmbedding(normalized)
      ctx        == [intent |-> intent, topic |-> topic,
                     tone |-> classifyContext(normalized).tone]
      filter     == IF FilterLeak \in faults THEN NoFilter ELSE LookupFilter(ctx)
      fail(e)    == {[error |-> e, response |-> Null, longTerm |-> lt,
                      pinecone |-> pc, match |-> NoMatch, candidates |-> << >>,
                      admit |-> NoAdmit]}
  IN  IF "embedLookup" \in faults THEN fail("embedLookup")
      ELSE IF "queryLookup" \in faults THEN fail("queryLookup")
      ELSE
        UNION { SimilarityWith(lt, pc, userId, normalized, threshold, ctx, faults, matches) :
                  matches \in QueryResults(pc, embedding, TopK, filter) }

-----------------------------------------------------------------------------
(* engine/characterEngine.ts: generateReply *)

Message(role, content) == [role |-> role, content |-> content]

\* a fallback that appends the message pair before it admits
FallbackSessionFirst(lt, pc, sess, username, input, normalized, generated, faults) ==
  { [longTerm |-> adm.longTerm, pinecone |-> adm.pinecone,
     session |-> updateSessionMessages(sess, username,
                   << Message("user", input), Message("assistant", trim(generated)) >>),
     error |-> adm.error,
     result |-> IF adm.error = "none" THEN trim(generated) ELSE Null,
     source |-> IF adm.error = "none" THEN "openai" ELSE "error",
     usedGenerator |-> TRUE,
     admit |-> AdmitObs(adm, trim(generated), trim(generated))] :
    adm \in addOrUpdateLongTermMemory(lt, pc, username, trim(generated), normalized,
                                      trim(generated), faults) }

\* steps 3 to 5 of generateReply: the generator fallback and the save
Fallback(lt, pc, sess, username, input, normalized, generated, faults) ==
  LET finalText == trim(generated)
      pair == << Message("user", input), Message("assistant", finalText) >>
      fail(e, l, p, a) ==
        [longTerm |-> l, pinecone |-> p, session |-> sess, error |-> e,
         result |-> Null, source |-> "error",
         usedGenerator |-> e # "sessionRead", admit |-> a]
  IN  IF "sessionRead" \in faults THEN {fail("sessionRead", lt, pc, NoAdmit)}
      ELSE IF "generator" \in faults THEN {fail("generator", lt, pc, NoAdmit)}
      ELSE IF Len(finalText) > 5 THEN
        { IF adm.error # "none" THEN
            fail(adm.error, adm.longTerm, adm.pinecone,
                 AdmitObs(adm, finalText, finalText))
          ELSE IF "sessionUpdate" \in faults THEN
            fail("sessionUpdate", adm.longTerm, adm.pinecone,
                 AdmitObs(adm, finalText, finalText))
          ELSE
            [longTerm |-> adm.longTerm, pinecone |-> adm.pinecone,
             session |-> updateSessionMessages(sess, username, pair),
             error |-> "none", result |-> finalText, source |-> "openai",
             usedGenerator |-> TRUE, admit |-> AdmitObs(adm, finalText, finalText)] :
          adm \in addOrUpdateLongTermMemory(lt, pc, username, finalText, normalized,
                                            finalText, faults) }
      ELSE
        {[longTerm |-> lt, pinecone |-> pc, session |-> sess, error |-> "none",
          result |-> finalText, source |-> "openai", usedGenerator |-> TRUE,
          admit |-> NoAdmit]}

\* every way generateReply(username, input) can end, when the generator's
\* stream holds `generated`
generateReply(lt, pc, sess, username, input, generated, faults) ==
  LET normalized == normalizeQuery(input)
      ctx        == classifyContext(normalized)
      readFailed == "mongoRead" \in faults
      mongoHit   == searchValidCachedMemory(lt, username, normalized, readFailed)
      seen       == [readFailed |-> readFailed, usedEmbedding |-> TRUE]
  IN  IF mongoHit # NoRow /\ Truthy(mongoHit.response) THEN
        {[longTerm |-> lt, pinecone |-> pc, session |-> sess, error |-> "none",
          result |-> mongoHit.response, source |-> "mongo", readFailed |-> readFailed,
          usedEmbedding |-> FALSE, usedVector |-> FALSE, usedGenerator |-> FALSE,
          match |-> NoMatch, candidates |-> << >>, admit |-> NoAdmit]}
      ELSE
        UNION {
          IF hit.error # "none" THEN
            {seen @@
             [longTerm |-> hit.longTerm, pinecone |-> hit.pinecone, session |-> sess,
              error |-> hit.error, result |-> Null, source |-> "error",
              usedVector |-> hit.error # "embedLookup",
              usedGenerator |-> FALSE, match |-> hit.match,
              candidates |-> hit.candidates, admit |-> hit.admit]}
          ELSE IF hit.response # Null THEN
            {seen @@
             [longTerm |-> hit.longTerm, pinecone |-> hit.pinecone, session |-> sess,
              error |-> "none", result |-> hit.response, source |-> "pinecone",
              usedVector |-> TRUE, usedGenerator |-> FALSE,
              match |-> hit.match, candidates |-> hit.candidates,
              admit |-> hit.admit]}
          ELSE
            { seen @@ out @@ [usedVector |-> TRUE, match |-> NoMatch,
                              candidates |-> hit.candidates] :
                out \in Fallback(lt, pc, sess, username, input, normalized,
                                 generated, faults) } :
          hit \in queryPineconeSimilarity(lt, pc, username, normalized, ReadThreshold,
                                          ctx.intent, ctx.topic, faults) }

-----------------------------------------------------------------------------
(* actions/actionWithApi.ts: the guard of the published tweets *)

\* a document of 'tweets' written by storeTweet (createdAt is not modelled)
TweetRow(text) == [text |-> text]

\* a hasTweet that answers true when its read fails
hasTweetFailClosed(tw, content, faults) ==
  IF "tweetsRead" \in faults THEN TRUE
  ELSE BagIn(TweetRow(sanitizeTweet(content)), tw)

\* !!findOne({text: sanitized}); a Mongo error is caught and answered false
hasTweet(tw, content, faults) ==
  LET sanitizedContent == sanitizeTweet(content)
  IN  IF "tweetsRead" \in faults THEN FALSE
      ELSE BagIn(TweetRow(sanitizedContent), tw)

\* insertOne({text: sanitized, createdAt}); a Mongo error is thrown on
storeTweet(tw, content, faults) ==
  LET sanitizedContent == sanitizeTweet(content)
  IN  IF "tweetsWrite" \in faults
      THEN [tweets |-> tw, error |-> "tweetsWrite"]
      ELSE [tweets |-> tw (+) SetToBag({TweetRow(sanitizedContent)}), error |-> "none"]

\* one call of hasTweet as its caller sees it: the argument and the answer
Check(tw, content, faults) ==
  [content |-> content, answer |-> hasTweet(tw, content, faults)]

\* what a function declared Promise<void> hands to its caller when it returns
Undefined == "<undefined>"

\* a publish path that stopped before the external call
NotPublished(tw, po, error, checks) ==
  [tweets |-> tw, posted |-> po, error |-> error, published |-> FALSE,
   publishedText |-> Null, stored |-> Null, checks |-> checks,
   returned |-> IF error = "none" THEN Undefined ELSE Null]

\* the external call went through with `text`, then storeTweet(text) ended as st
StoredAfter(po, text, st, checks) ==
  [tweets |-> st.tweets, posted |-> po (+) SetToBag({text}),
   error |-> st.error, published |-> TRUE,
   publishedText |-> text, stored |-> text, checks |-> checks,
   returned |-> IF st.error = "none" THEN Undefined ELSE Null]

PublishedThenStored(tw, po, text, faults, checks) ==
  StoredAfter(po, text, storeTweet(tw, text, faults), checks)

\* postTweet(content) without its duplicate check
PostTweetUnchecked(tw, po, content, faults) ==
  PublishedThenStored(tw, po, sanitizeTweet(content), {}, << >>)

\* the body of postTweet once hasTweet(sanitizedContent) has answered `check`;
\* publishFault is the failure of the external call
PostChecked(tw, po, sanitizedContent, check, faults, publishFault) ==
  IF "twitterSession" \in faults THEN
    NotPublished(tw, po, "twitterSession", << >>)
  ELSE IF check.answer THEN NotPublished(tw, po, "none", <<check>>)
  ELSE IF publishFault \in faults THEN NotPublished(tw, po, publishFault, <<check>>)
  ELSE PublishedThenStored(tw, po, sanitizedContent, faults, <<check>>)

PostSanitized(tw, po, sanitizedContent, faults, publishFault) ==
  PostChecked(tw, po, sanitizedContent, Check(tw, sanitizedContent, faults),
              faults, publishFault)

\* postTweet(content): the stores it leaves, the failure it threw ("none":
\* it returned), whether and what it published, the text it handed to
\* storeTweet, the calls of hasTweet it made and the value it returned
postTweet(tw, po, content, faults) ==
  PostSanitized(tw, po, sanitizeTweet(content), faults, "tweetApi")

-----------------------------------------------------------------------------
(* engine/behaviorWithApi.ts: postRandomTweet;
   engine/behaviorWithPuppeteer.ts: scrapeTrendingTweets *)

\* the entry postRandomTweet upserts (its date fields are not modelled)
TweetEntry(username, tweetText) ==
  [values   |-> getEmbedding(tweetText),
   metadata |-> [username |-> username, query |-> tweetText,
                 summary |-> "Random tweet by @" \o username,
                 response |-> tweetText, intent |-> "statement", topic |-> "random"]]

\* postRandomTweet after its calls of hasTweet (first), postTweet (pt) and
\* storeTweet (st): pc1 is the index with the entry of the tweet
RandomTweetOutcome(tw, po, pc, pc1, tweetText, first, pt, st, faults) ==
  LET out(t, p, c, e, r) ==
        [tweets |-> t, posted |-> p, pinecone |-> c, error |-> e, result |-> r,
         published |-> p # po,
         publishedText |-> IF p # po THEN pt.publishedText ELSE Null,
         stored |-> IF p # po THEN pt.stored ELSE Null,
         checks |-> IF "selfTweet" \in faults THEN << >>
                    ELSE IF first.answer THEN <<first>>
                    ELSE <<first>> \o pt.checks,
         returned |-> r]
  IN  IF "selfTweet" \in faults THEN out(tw, po, pc, "selfTweet", Null)
      ELSE IF first.answer THEN out(tw, po, pc, "none", Null)
      ELSE IF pt.error # "none" THEN out(pt.tweets, pt.posted, pc, "none", Null)
      ELSE IF st.error # "none" THEN out(st.tweets, pt.posted, pc, "none", Null)
      ELSE IF "embedTweet" \in faults \/ "upsertTweet" \in faults THEN
        out(st.tweets, pt.posted, pc, "none", Null)
      ELSE out(st.tweets, pt.posted, pc1, "none", tweetText)

RandomTweetPosted(tw, po, pc, username, tweetText, sanitizedTweet, pt, faults) ==
  RandomTweetOutcome(tw, po, pc,
                     Upsert(pc, Base64(tweetText), TweetEntry(username, tweetText)),
                     tweetText, Check(tw, sanitizedTweet, faults), pt,
                     storeTweet(pt.tweets, sanitizedTweet, faults), faults)

RandomTweetOf(tw, po, pc, username, tweetText, faults) ==
  RandomTweetPosted(tw, po, pc, username, tweetText, sanitizeTweet(tweetText),
                    postTweet(tw, po, tweetText, faults), faults)

\* postRandomTweet(username), `generated` being the stream of generateSelfTweet,
\* which answers it sanitized
postRandomTweet(tw, po, pc, username, generated, faults) ==
  RandomTweetOf(tw, po, pc, username, sanitizeTweet(generated), faults)

-----------------------------------------------------------------------------
(* actions/actionWithPuppeteer.ts: postTweet through the browser;
   engine/behaviorWithApi.ts: getUserId, replyToTweet;
   engine/behaviorWithPuppeteer.ts: replyToTweet, maybeTweet *)

\* in ticks of 15 minutes: USER_CACHE_DURATION_MS (24 hours),
\* RATE_LIMIT_WAIT_MS (15 minutes) and the three hours of a tweet batch;
\* the five tweets of a batch and the five regenerations of maybeTweet
UserCacheTicks    == 96
RateLimitTicks    == 1
TweetBatchTicks   == 12
MaxTweetsPerBatch == 5
MaxAttempts       == 5

\* postTweet(content) of the browser variant: a failing page step throws
\* before the click; the click publishes
postTweetPuppeteer(tw, po, content, faults) ==
  PostSanitized(tw, po, sanitizeTweet(content), faults, "page")

\* a document of 'users'
CachedUser(id, cachedAt) == [id |-> id, cachedAt |-> cachedAt]

\* a getUserId that answers from the cache whatever its age
getUserIdAnyAge(us, t, username, apiUser, faults) ==
  IF "usersRead" \in faults THEN [users |-> us, id |-> Null, error |-> "usersRead"]
  ELSE IF username \in DOMAIN us THEN
    [users |-> us, id |-> us[username].id, error |-> "none"]
  ELSE IF "userApi" \in faults \/ apiUser = Null \/ "usersWrite" \in faults THEN
    [users |-> us, id |-> Null, error |-> "none"]
  ELSE
    [users |-> Upsert(us, username, CachedUser(apiUser, t)), id |-> apiUser,
     error |-> "none"]

\* getUserId(client, username) at time t, `apiUser` being the id Twitter
\* answers (Null: no such user): the cache it leaves, the id it returns
\* (Null: none) and the failure it threw
getUserId(us, t, username, apiUser, faults) ==
  IF "usersRead" \in faults THEN [users |-> us, id |-> Null, error |-> "usersRead"]
  ELSE IF username \in DOMAIN us /\ us[username].cachedAt >= t - UserCacheTicks THEN
    [users |-> us, id |-> us[username].id, error |-> "none"]
  ELSE IF "userApi" \in faults \/ apiUser = Null \/ "usersWrite" \in faults THEN
    [users |-> us, id |-> Null, error |-> "none"]
  ELSE
    [users |-> Upsert(us, username, CachedUser(apiUser, t)), id |-> apiUser,
     error |-> "none"]

\* RANDOM_POST_INTERVAL_MS and RANDOM_POST_COUNT
RandomPostTicks == 12
RandomPostCount == 5

\* the bound of processedCount in checkLatestMentions
MaxProcessed == 10

\* CACHE_DURATION_MS, in ticks of 15 minutes
CacheTicks == 1

\* one element of the array fetchLatestTweets builds at time t
TweetData(username, text, t) ==
  [username |-> username, text |-> text, cachedAt |-> t, cachedUntil |-> t + CacheTicks]

\* the array built from the texts of the timeline
TweetDataOf(username, texts, t) ==
  [i \in 1..Len(texts) |-> TweetData(username, texts[i], t)]

\* the per-user cache document of 'tweets' written at time t
CacheDoc(username, result, t) ==
  [username |-> username, tweets |-> result, cachedAt |-> t,
   cachedUntil |-> t + CacheTicks]

\* the documents of 'tweets' the filter {username} matches
DocsOf(tw, username) ==
  {d \in BagToSet(tw) : "username" \in DOMAIN d /\ d.username = username}

\* the documents the filter {username, cachedUntil: {$gte: now}} matches
FreshDocsOf(tw, username, t) ==
  {d \in DocsOf(tw, username) : d.cachedUntil >= t}

\* an upsert whose filter matches every document of the collection
UpsertCacheAnyDoc(tw, username, matched, doc) ==
  IF BagToSet(tw) = {} THEN tw (+) SetToBag({doc})
  ELSE (tw (-) SetToBag({CHOOSE d \in BagToSet(tw) : TRUE})) (+) SetToBag({doc})

\* updateOne({username}, {$set: {tweets, cachedAt, cachedUntil}}, {upsert})
UpsertCache(tw, username, matched, doc) ==
  IF matched = {} THEN tw (+) SetToBag({doc})
  ELSE (tw (-) SetToBag({CHOOSE d \in matched : TRUE})) (+) SetToBag({doc})

\* what a call of fetchLatestTweets leaves and returns
FetchOutcome(tw, us, clock, result, cached, error) ==
  [tweets |-> tw, users |-> us, now |-> clock, result |-> result,
   cached |-> cached, error |-> error]

\* the try block of fetchLatestTweets at time t: user is the answer of
\* getUserId; every failure is logged and answered [], the rate limit answer
\* waits first
FetchFromApi(tw, t, username, user, texts, faults) ==
  IF user.error # "none" \/ user.id = Null THEN
    FetchOutcome(tw, user.users, t, << >>, FALSE, "none")
  ELSE IF "timelineApi" \in faults THEN
    FetchOutcome(tw, user.users, t, << >>, FALSE, "none")
  ELSE IF "timelineRateLimit" \in faults THEN
    FetchOutcome(tw, user.users, t + RateLimitTicks, << >>, FALSE, "none")
  ELSE IF "tweetsWrite" \in faults THEN
    FetchOutcome(tw, user.users, t, << >>, FALSE, "none")
  ELSE
    FetchOutcome(UpsertCache(tw, username, DocsOf(tw, username),
                             CacheDoc(username, TweetDataOf(username, texts, t), t)),
                 user.users, t, TweetDataOf(username, texts, t), FALSE, "none")

\* fetchLatestTweets after its findOne answered the documents `fresh`
FetchCached(tw, us, t, username, fresh, apiUser, texts, faults) ==
  IF fresh # {} THEN
    FetchOutcome(tw, us, t, (CHOOSE d \in fresh : TRUE).tweets, TRUE, "none")
  ELSE
    FetchFromApi(tw, t, username, getUserId(us, t, username, apiUser, faults),
                 texts, faults)

\* a fetchLatestTweets whose findOne does not look at cachedUntil
fetchLatestTweetsAnyAge(tw, us, t, username, apiUser, texts, faults) ==
  IF "tweetsRead" \in faults THEN FetchOutcome(tw, us, t, << >>, FALSE, "tweetsRead")
  ELSE FetchCached(tw, us, t, username, DocsOf(tw, username), apiUser, texts, faults)

\* fetchLatestTweets(client, username) at time t, `texts` being the texts of
\* the timeline Twitter answers; the findOne is outside the try block
fetchLatestTweets(tw, us, t, username, apiUser, texts, faults) ==
  IF "tweetsRead" \in faults THEN FetchOutcome(tw, us, t, << >>, FALSE, "tweetsRead")
  ELSE FetchCached(tw, us, t, username, FreshDocsOf(tw, username, t), apiUser,
                   texts, faults)

\* the id of the first tweet of the timeline whose sanitized text is the
\* sanitized text of the tweet, from position i on (Null: none)
RECURSIVE FindTweetId(_, _, _)
FindTweetId(timeline, sanitizedText, i) ==
  IF i > Len(timeline) THEN Null
  ELSE IF sanitizeTweet(timeline[i].text) = sanitizedText THEN timeline[i].id
  ELSE FindTweetId(timeline, sanitizedText, i + 1)

\* the try block of replyToTweet at time t after hasTweet answered false:
\* user is the answer of getUserId, found the id found in the timeline, sent
\* the outcome of a reply that goes through; every failure is logged and
\* swallowed, the rate limit answer waits first
ReplyOutcome(tw, po, t, check, user, mentionId, found, sent, faults) ==
  LET tweetId == IF mentionId # Null THEN mentionId ELSE found
      stop(u, clock) ==
        NotPublished(tw, po, "none", <<check>>)
          @@ [users |-> u, now |-> clock, inReplyTo |-> Null]
  IN  IF check.answer THEN stop(user.users, t)
      ELSE IF user.error # "none" \/ user.id = Null THEN stop(user.users, t)
      ELSE IF "timelineApi" \in faults THEN stop(user.users, t)
      ELSE IF tweetId = Null THEN stop(user.users, t)
      ELSE IF "replyApi" \in faults THEN stop(user.users, t)
      ELSE IF "replyRateLimit" \in faults THEN stop(user.users, t + RateLimitTicks)
      ELSE [sent EXCEPT !.error = "none", !.returned = Undefined]
             @@ [users |-> user.users, now |-> t, inReplyTo |-> tweetId]

\* getUserId is not called when hasTweet answered true
ReplyChecked(tw, po, us, t, tweet, sanitizedReply, check, mentionId, apiUser, timeline, faults) ==
  ReplyOutcome(tw, po, t, check,
               IF check.answer THEN [users |-> us, id |-> Null, error |-> "none"]
               ELSE getUserId(us, t, tweet.username, apiUser, faults),
               mentionId,
               FindTweetId(timeline, sanitizeTweet(tweet.text), 1),
               PublishedThenStored(tw, po, sanitizedReply, faults, <<check>>),
               faults)

ReplySanitized(tw, po, us, t, tweet, sanitizedReply, mentionId, apiUser, timeline, faults) ==
  ReplyChecked(tw, po, us, t, tweet, sanitizedReply,
               Check(tw, sanitizedReply, faults), mentionId, apiUser, timeline,
               faults)

\* replyToTweet(client, tweet, reply, mentionId) at time t
replyToTweet(tw, po, us, t, tweet, reply, mentionId, apiUser, timeline, faults) ==
  ReplySanitized(tw, po, us, t, tweet, sanitizeTweet(reply), mentionId, apiUser,
                 timeline, faults)

\* a row of 'replied_mentions' (its dates are not modelled)
RepliedRow(mentionId, mentionText, replyText) ==
  [mentionId |-> mentionId, mentionText |-> mentionText, replyText |-> replyText]

\* !!findOne({mentionId}); a Mongo error is caught and answered false
hasRepliedToMention(rm, mentionId, faults) ==
  IF "repliedRead" \in faults THEN FALSE
  ELSE \E row \in BagToSet(rm) : row.mentionId = mentionId

\* insertOne of the row; a Mongo error is caught and logged
storeRepliedMention(rm, mentionId, mentionText, replyText, faults) ==
  IF "repliedWrite" \in faults THEN rm
  ELSE rm (+) SetToBag({RepliedRow(mentionId, mentionText, replyText)})

\* the state of checkLatestMentions after the body of its loop has run for
\* the mention: rp is what replyToTweet left
AfterMention(st, mention, reply, rp, faults) ==
  [tweets |-> rp.tweets, posted |-> rp.posted, users |-> rp.users, now |-> rp.now,
   repliedMentions |->
     storeRepliedMention(st.repliedMentions, mention.id, mention.text, reply, faults),
   mentionReplies |->
     IF rp.published THEN st.mentionReplies (+) SetToBag({mention.id})
     ELSE st.mentionReplies,
   processedCount |-> st.processedCount + 1,
   outcomes |-> Append(st.outcomes,
                       [mentionId |-> mention.id, published |-> rp.published,
                        publishedText |-> rp.publishedText,
                        recorded |-> "repliedWrite" \notin faults])]

\* the loop over mentionQueue from its i-th element on; replies[i] is the
\* text generateReplyForTweet answers for that element; a throw of
\* generateReplyForTweet ends the loop in the catch block of the function
RECURSIVE ProcessQueue(_, _, _, _, _, _)
ProcessQueue(st, mentionQueue, i, replies, apiUser, faults) ==
  IF i > Len(mentionQueue) \/ st.processedCount >= MaxProcessed THEN st
  ELSE IF hasRepliedToMention(st.repliedMentions, mentionQueue[i].id, faults) THEN
    ProcessQueue(st, mentionQueue, i + 1, replies, apiUser, faults)
  ELSE IF "selfTweet" \in faults THEN st
  ELSE
    ProcessQueue(
      AfterMention(st, mentionQueue[i], replies[i],
                   replyToTweet(st.tweets, st.posted, st.users, st.now,
                                [username |-> mentionQueue[i].username,
                                 text |-> mentionQueue[i].text],
                                replies[i], mentionQueue[i].id, apiUser, << >>,
                                faults),
                   faults),
      mentionQueue, i + 1, replies, apiUser, faults)

\* the tweets of the search result whose author is among the included users
RECURSIVE QueueOf(_, _)
QueueOf(searchResult, i) ==
  IF i > Len(searchResult) THEN << >>
  ELSE IF searchResult[i].username = Null THEN QueueOf(searchResult, i + 1)
  ELSE <<searchResult[i]>> \o QueueOf(searchResult, i + 1)

\* checkLatestMentions(client, botUsername) started in the state st with the
\* search answering searchResult; every failure is caught and logged, the
\* rate limit answer waits first
checkLatestMentions(st, searchResult, replies, apiUser, faults) ==
  IF "searchApi" \in faults THEN st
  ELSE IF "searchRateLimit" \in faults THEN [st EXCEPT !.now = @ + RateLimitTicks]
  ELSE ProcessQueue(st, QueueOf(searchResult, 1), 1, replies, apiUser, faults)

\* the timeline Twitter answers for texts
TimelineOf(texts) ==
  [i \in 1..Len(texts) |-> [id |-> "t:" \o texts[i], text |-> texts[i]]]

\* the state of engageWithTweets after replyToTweet left rp
AfterReply(st, rp) ==
  [st EXCEPT !.tweets = rp.tweets, !.posted = rp.posted, !.users = rp.users,
             !.now = rp.now]

\* the inner loop of engageWithTweets over the fetched tweets from the i-th
\* on; a throw of generateReplyForTweet ends it in the catch block
RECURSIVE EngageReplies(_, _, _, _, _, _, _)
EngageReplies(st, fetched, i, replies, apiUser, texts, faults) ==
  IF i > Len(fetched) THEN st
  ELSE IF "selfTweet" \in faults THEN st
  ELSE
    EngageReplies(
      AfterReply(st, replyToTweet(st.tweets, st.posted, st.users, st.now,
                                  [username |-> fetched[i].username,
                                   text |-> fetched[i].text],
                                  replies[i], Null, apiUser, TimelineOf(texts),
                                  faults)),
      fetched, i + 1, replies, apiUser, texts, faults)

\* engageWithTweets after checkLatestMentions left cm and fetchLatestTweets
\* ended as ft; a throw of fetchLatestTweets is caught and logged
EngageFetched(cm, ft, replies, apiUser, texts, faults) ==
  IF ft.error # "none" THEN cm
  ELSE EngageReplies([cm EXCEPT !.tweets = ft.tweets, !.users = ft.users,
                                !.now = ft.now],
                     ft.result, 1, replies, apiUser, texts, faults)

\* a cycle that goes on when the client is not verified
verifyCycleSessionOnly(loop, t, sessionOk, clientOk) ==
  IF ~sessionOk THEN
    [loop EXCEPT !.pc = "retry", !.cycles = @ + 1, !.verified = FALSE]
  ELSE IF t - loop.lastRandomPostTime >= RandomPostTicks THEN
    [loop EXCEPT !.pc = "posting", !.cycles = @ + 1,
                 !.verified = sessionOk /\ clientOk,
                 !.currentTime = t, !.attempts = 0, !.batches = @ + 1,
                 !.batchStart = t, !.prevBatchStart = loop.batchStart]
  ELSE [loop EXCEPT !.pc = "engage", !.cycles = @ + 1,
                    !.verified = sessionOk /\ clientOk]

\* the head of a cycle of the API loop at time t: verifySession() (with its
\* reconnect) answered sessionOk, verifyTwitterClient() answered clientOk; a
\* false answer waits 60 seconds and continues; then the test of the batch
verifyCycle(loop, t, sessionOk, clientOk) ==
  IF ~sessionOk \/ ~clientOk THEN
    [loop EXCEPT !.pc = "retry", !.cycles = @ + 1, !.verified = FALSE]
  ELSE IF t - loop.lastRandomPostTime >= RandomPostTicks THEN
    [loop EXCEPT !.pc = "posting", !.cycles = @ + 1, !.verified = TRUE,
                 !.currentTime = t, !.attempts = 0, !.batches = @ + 1,
                 !.batchStart = t, !.prevBatchStart = loop.batchStart]
  ELSE [loop EXCEPT !.pc = "engage", !.cycles = @ + 1, !.verified = TRUE]

\* a batch in which a throw of postRandomTweet ends the loop
afterAttemptStopping(loop, error) ==
  IF error # "none" THEN [loop EXCEPT !.pc = "stopped", !.attempts = @ + 1]
  ELSE IF loop.attempts + 1 >= RandomPostCount THEN
    [loop EXCEPT !.pc = "engage", !.attempts = @ + 1,
                 !.lastRandomPostTime = loop.currentTime]
  ELSE [loop EXCEPT !.attempts = @ + 1]

\* the loop of postRandomTweets after one call of postRandomTweet ended with
\* error: a throw leaves the batch for the catch block of the cycle, the
\* fifth return ends the batch and sets lastRandomPostTime = currentTime
afterAttempt(loop, error) ==
  IF error # "none" THEN [loop EXCEPT !.pc = "sleep", !.attempts = @ + 1]
  ELSE IF loop.attempts + 1 >= RandomPostCount THEN
    [loop EXCEPT !.pc = "engage", !.attempts = @ + 1,
                 !.lastRandomPostTime = loop.currentTime]
  ELSE [loop EXCEPT !.attempts = @ + 1]

\* replyToTweet(page, tweet, reply) of the browser variant: the check is made
\* before the try block, a failing page step throws before the click
ReplyPuppeteerChecked(tw, po, sanitizedReply, check, faults) ==
  IF check.answer THEN NotPublished(tw, po, "none", <<check>>)
  ELSE IF "page" \in faults THEN NotPublished(tw, po, "page", <<check>>)
  ELSE PublishedThenStored(tw, po, sanitizedReply, faults, <<check>>)

ReplyPuppeteerSanitized(tw, po, sanitizedReply, faults) ==
  ReplyPuppeteerChecked(tw, po, sanitizedReply, Check(tw, sanitizedReply, faults),
                        faults)

replyToTweetPuppeteer(tw, po, tweet, reply, faults) ==
  ReplyPuppeteerSanitized(tw, po, sanitizeTweet(reply), faults)

\* the while loop of maybeTweet from its attempts-th regeneration on:
\* sanitizedTweets[attempts + 1] is the sanitized tweet of the generation at
\* hand; the loop asks hasTweet first, then compares attempts
RECURSIVE Regenerate(_, _, _, _, _)
Regenerate(tw, sanitizedTweets, attempts, faults, checks) ==
  IF checks[Len(checks)].answer /\ attempts < MaxAttempts THEN
    Regenerate(tw, sanitizedTweets, attempts + 1, faults,
               Append(checks, Check(tw, sanitizedTweets[attempts + 2], faults)))
  ELSE [attempts |-> attempts, sanitizedTweet |-> sanitizedTweets[attempts + 1],
        checks |-> checks]

\* a maybeTweet without the test of tweetsPosted
MaybeTweetOutcomeNoQuota(tw, po, batch, loop, pt, faults) ==
  IF "selfTweet" \in faults THEN
    NotPublished(tw, po, "selfTweet", << >>) @@ [humanLoop |-> batch]
  ELSE IF loop.attempts >= MaxAttempts THEN
    NotPublished(tw, po, "none", loop.checks) @@ [humanLoop |-> batch]
  ELSE
    [pt EXCEPT !.checks = loop.checks \o @]
      @@ [humanLoop |->
            IF pt.error = "none"
            THEN [batch EXCEPT !.tweetsPosted = @ + 1] ELSE batch]

\* maybeTweet() after its loop and, where it is reached, its postTweet (pt)
MaybeTweetOutcome(tw, po, batch, loop, pt, faults) ==
  IF batch.tweetsPosted >= MaxTweetsPerBatch THEN
    NotPublished(tw, po, "none", << >>) @@ [humanLoop |-> batch]
  ELSE IF "selfTweet" \in faults THEN
    NotPublished(tw, po, "selfTweet", << >>) @@ [humanLoop |-> batch]
  ELSE IF loop.attempts >= MaxAttempts THEN
    NotPublished(tw, po, "none", loop.checks) @@ [humanLoop |-> batch]
  ELSE
    [pt EXCEPT !.checks = loop.checks \o @]
      @@ [humanLoop |->
            IF pt.error = "none"
            THEN [batch EXCEPT !.tweetsPosted = @ + 1] ELSE batch]

MaybeTweetLooped(tw, po, batch, loop, faults) ==
  MaybeTweetOutcome(tw, po, batch, loop,
                    postTweetPuppeteer(tw, po, loop.sanitizedTweet, faults), faults)

\* generateSelfTweet answers its stream sanitized, maybeTweet sanitizes the
\* answer
MaybeTweetGenerated(tw, po, batch, sanitizedTweets, faults) ==
  MaybeTweetLooped(tw, po, batch,
                   Regenerate(tw, sanitizedTweets, 0, faults,
                              <<Check(tw, sanitizedTweets[1], faults)>>),
                   faults)

\* maybeTweet() of startHumanLoop at time t, hl being lastTweetBatch and
\* tweetsPosted, `streams` the streams of the successive generations
maybeTweet(tw, po, hl, t, streams, faults) ==
  MaybeTweetGenerated(tw, po,
                      IF t - hl.lastTweetBatch >= TweetBatchTicks
                      THEN [lastTweetBatch |-> t, tweetsPosted |-> 0] ELSE hl,
                      [i \in DOMAIN streams |->
                         sanitizeTweet(sanitizeTweet(streams[i]))],
                      faults)

\* the entry scrapeTrendingTweets upserts for one scraped tweet
ScrapedEntry(tweet, topic) ==
  [values   |-> getEmbedding(tweet.text),
   metadata |-> [username |-> tweet.username, query |-> tweet.text,
                 summary |-> "Tweet by @" \o tweet.username,
                 response |-> tweet.text, intent |-> "summary", topic |-> topic]]

\* the index after the loop of scrapeTrendingTweets has stored n tweets
RECURSIVE StoreScraped(_, _, _, _)
StoreScraped(pc, topic, scraped, n) ==
  IF n = 0 THEN pc
  ELSE Upsert(StoreScraped(pc, topic, scraped, n - 1),
              Base64(scraped[n].text), ScrapedEntry(scraped[n], topic))

NoTweet == [username |-> "<null>", text |-> "<null>"]

\* scrapeTrendingTweets(page, topic): `scraped` is what the page shows;
\* failAt = 0: the page fails; failAt = i in 1..Len(scraped): the i-th
\* embedding or upsert fails; failAt > Len(scraped): nothing fails
scrapeTrendingTweets(pc, topic, scraped, failAt) ==
  IF failAt = 0 THEN [pinecone |-> pc, result |-> NoTweet]
  ELSE IF failAt <= Len(scraped) THEN
    [pinecone |-> StoreScraped(pc, topic, scraped, failAt - 1), result |-> NoTweet]
  ELSE
    [pinecone |-> StoreScraped(pc, topic, scraped, Len(scraped)),
     result |-> IF scraped = << >> THEN NoTweet ELSE scraped[1]]

-----------------------------------------------------------------------------
(* Inputs of the handlers *)

Users == {"mando_fan"}

\* what the generator's stream may hold
GenOutputs == {"This is the Way.", " Beskar is Mandalorian steel.\n"}

\* a stream too short to be saved (finalText.length <= 5)
ShortOutput == "Yes."

\* summaries and responses a direct caller of addOrUpdateLongTermMemory passes
Summaries == {"about beskar"}
Responses == {"This is the Way.", "Beskar is Mandalorian steel."}

\* what the index may do in a call without failures
Backends == {{}, {FilterLeak}}

FaultSets ==
  {{f} : f \in FaultPoints} \cup {{"mongoRead", "mongoExists"}}

AdmitFaultSets == {{"mongoWrite"}, {"embedAdmit"}, {"queryAdmit"}, {"upsert"}}

\* the queries of the runs with failures
FaultQueries == {Query1b, Query2, Query4}

TweetFaultSets ==
  {{}, {"selfTweet"}, {"tweetsRead"}, {"tweetsWrite"}, {"twitterSession"},
   {"tweetApi"}, {"embedTweet"}, {"upsertTweet"}}

Topics == {"mandalorian"}

\* contents a caller passes to the publish paths, plain and quoted
PublishContents == {"This is the Way.", " \"Honor is armor.\" "}

\* the tweet a reply answers, what Twitter knows of its author, the ids of
\* a mention
RepliedTweet == [username |-> "din", text |-> "This is the Way"]
ApiUsers     == {Null, "u1"}
Timelines    == {<< >>, <<[id |-> "t0", text |-> "I have spoken."],
                          [id |-> "t1", text |-> "this is the way"]>>}
MentionIds   == {Null, "m1"}

\* the streams of the successive generations of one maybeTweet: a fresh
\* text, the same text over and over, and a repeated text followed by a new
\* one at the second and at the last regeneration
GenSequences ==
  { [i \in 1..(MaxAttempts + 1) |-> "This is the Way."],
    [i \in 1..(MaxAttempts + 1) |->
       IF i = 1 THEN "This is the Way." ELSE " \"Honor is armor.\" "],
    [i \in 1..(MaxAttempts + 1) |->
       IF i <= MaxAttempts THEN "This is the Way." ELSE " \"Honor is armor.\" "] }

PostFaultSets  == {{}, {"tweetsRead"}, {"tweetsWrite"}, {"twitterSession"}}
ReplyFaultSets ==
  {{}, {"tweetsRead"}, {"tweetsWrite"}, {"usersRead"}, {"userApi"}, {"usersWrite"},
   {"timelineApi"}, {"replyApi"}, {"replyRateLimit"}}

\* the users whose tweets are fetched and the texts of their timelines
CacheUsers     == {"din"}
CacheApiUsers  == {Null, "u1", "u2"}
CacheTimelines == {<<"I have spoken.">>, <<"This is the Way", "I have spoken.">>}
FetchFaultSets ==
  {{}, {"tweetsRead"}, {"tweetsWrite"}, {"usersRead"}, {"timelineApi"},
   {"timelineRateLimit"}}
UserFaultSets  == {{}, {"usersRead"}, {"userApi"}, {"usersWrite"}}

\* the mentions the search answers, the second without an included author,
\* and the replies the generator writes for the mentions of a queue
Mention1 == [id |-> "m1", text |-> "@bot hello", username |-> "din"]
Mention2 == [id |-> "m2", text |-> "@bot hi", username |-> Null]
Mention3 == [id |-> "m3", text |-> "@bot why", username |-> "din"]
SearchResults == {<<Mention1>>, <<Mention2, Mention3>>, <<Mention1, Mention3>>}
ReplyStreams ==
  {<<"I have spoken.", "I have spoken.">>, <<"This is the Way.", "I have spoken.">>,
   <<"Honor is armor.", "This is the Way.">>}
MentionFaultSets ==
  {{}, {"repliedRead"}, {"repliedWrite"}, {"tweetsRead"}, {"tweetsWrite"},
   {"searchApi"}, {"searchRateLimit"}, {"selfTweet"}, {"replyApi"},
   {"replyRateLimit"}, {"timelineApi"}}

\* the texts of the rounds of the Puppeteer loop, each as the stream of a
\* generation and of its regenerations
QuotaStreams == {[i \in 1..(MaxAttempts + 1) |-> t] : t \in QuotaTexts}
QuotaFaultSets == {{}, {"tweetsWrite"}, {"page"}, {"engage"}}

\* what a cycle of the API loop meets: the mentions, the timeline of the
\* user it engages with, the failures, and how long its wait lasts
LoopSearchResults == {<< >>, <<Mention1>>}
LoopTimelines     == {<<"I have spoken.">>}
LoopReplies       == {<<"This is the Way.", "This is the Way.">>}
LoopPostFaultSets == {{}, {"selfTweet"}, {"tweetApi"}}
LoopFaultSets     == {{}, {"selfTweet"}, {"searchApi"}, {"tweetsRead"}, {"replyApi"}}
LoopWaits         == {1, RandomPostTicks}

\* the jumps of the clock around the two cache durations
CacheJumps == {CacheTicks, UserCacheTicks}

\* the jumps of the clock: a tweet batch, and a day and a tick
ClockJumps == {TweetBatchTicks, UserCacheTicks + 1}

-----------------------------------------------------------------------------
(* State machine of the tiered memory *)

EmptyStore == [k \in {} |-> NoRow]

\* the callers that may be inside addOrUpdateLongTermMemory at the same time
Callers == {1, 2}

\* a caller that is not inside addOrUpdateLongTermMemory
Idle == [pc |-> "idle"]

\* the loop of the API startHumanLoop before its first cycle: Date.now() is
\* at least three hours after the time 0 that lastRandomPostTime starts with
\* pc is the place of the loop, cycles the number of cycles begun, verified
\* the answer of the two checks of the cycle, currentTime and attempts the
\* locals of the batch, batches and batchStart the number of batches
\* triggered and the time the last one was triggered at
LoopStart ==
  [pc |-> "verify", lastRandomPostTime |-> 0 - RandomPostTicks, cycles |-> 0,
   verified |-> FALSE, currentTime |-> 0, attempts |-> 0, batches |-> 0,
   batchStart |-> 0, prevBatchStart |-> 0]

Before ==
  [longTerm |-> longTerm, pinecone |-> pinecone, session |-> session,
   tweets |-> tweets, posted |-> posted]

PureIdle == pin = "" /\ pout = [fn |-> "none"]

MemInit ==
  /\ longTerm = EmptyStore
  /\ pinecone = EmptyStore
  /\ session = EmptyStore
  /\ tweets = EmptyBag
  /\ posted = EmptyBag
  /\ users = EmptyStore
  /\ now = 0
  /\ humanLoop = [lastTweetBatch |-> 0, tweetsPosted |-> 0]
  /\ admits = [p \in Callers |-> Idle]
  /\ repliedMentions = EmptyBag
  /\ mentionReplies = EmptyBag
  /\ updates = [p \in Callers |-> Idle]
  /\ apiLoop = LoopStart
  /\ puppetLoop = [running |-> TRUE, windowPosts |-> 0]
  /\ calls = 0
  /\ last = [op |-> "none"]

Init == PureIdle /\ MemInit

\* one call of generateReply(username, input)
GenerateReply(username, input, generated, faults) ==
  /\ \E out \in generateReply(longTerm, pinecone, session, username, input,
                              generated, faults) :
       /\ longTerm' = out.longTerm
       /\ pinecone' = out.pinecone
       /\ session' = out.session
       /\ last' = [op |-> "generateReply", username |-> username, input |-> input,
                   before |-> Before, error |-> out.error,
                   result |-> out.result, source |-> out.source,
                   readFailed |-> out.readFailed,
                   usedEmbedding |-> out.usedEmbedding, usedVector |-> out.usedVector,
                   usedGenerator |-> out.usedGenerator, match |-> out.match,
                   candidates |-> out.candidates,
                   admit |-> out.admit]
  /\ calls' = calls + 1
  /\ UNCHANGED <<pin, pout, tweets, posted, users, now, humanLoop, admits, lateVars>>

\* what a call remembers of the call before it: for a direct call of
\* addOrUpdateLongTermMemory its arguments and how it ended
Brief(l) ==
  IF l.op = "admit"
  THEN [op |-> "admit", username |-> l.username, input |-> l.input,
        summary |-> l.admit.summary, response |-> l.admit.response,
        error |-> l.error]
  ELSE [op |-> l.op]

\* what addOrUpdateLongTermMemory hands to its caller: it is declared
\* Promise<void>; the 'return;' of the skip and the end of the body both
\* resolve to undefined, a failure rejects
AdmitReturn(adm) == IF adm.error = "none" THEN Undefined ELSE Null

\* one direct call of addOrUpdateLongTermMemory(username, summary, query, response)
Admit(username, summary, query, response, faults) ==
  /\ \E adm \in addOrUpdateLongTermMemory(longTerm, pinecone, username, summary,
                                          query, response, faults) :
       /\ longTerm' = adm.longTerm
       /\ pinecone' = adm.pinecone
       /\ last' = [op |-> "admit", username |-> username, input |-> query,
                   before |-> Before, prior |-> Brief(last), error |-> adm.error,
                   admit |-> AdmitObs(adm, summary, response),
                   returned |-> AdmitReturn(adm)]
  /\ calls' = calls + 1
  /\ UNCHANGED <<session, pin, pout, tweets, posted, users, now, humanLoop, admits, lateVars>>

\* one call of storeTweet(content)
StoreTweet(content, faults) ==
  /\ LET st == storeTweet(tweets, content, faults)
     IN  /\ tweets' = st.tweets
         /\ last' = [op |-> "storeTweet", input |-> content, before |-> Before,
                     error |-> st.error]
  /\ calls' = calls + 1
  /\ UNCHANGED <<pin, pout, longTerm, pinecone, session, posted, users, now,
                 humanLoop, admits, lateVars>>

\* one call of postTweet(content)
PostTweet(content, faults) ==
  /\ LET pt == postTweet(tweets, posted, content, faults)
     IN  /\ tweets' = pt.tweets
         /\ posted' = pt.posted
         /\ last' = [op |-> "postTweet", input |-> content, before |-> Before,
                     error |-> pt.error, published |-> pt.published,
                     publishedText |-> pt.publishedText, stored |-> pt.stored,
                     checks |-> pt.checks, returned |-> pt.returned,
                     faults |-> faults]
  /\ calls' = calls + 1
  /\ UNCHANGED <<pin, pout, longTerm, pinecone, session, users, now, humanLoop, admits, lateVars>>

\* one call of postRandomTweet(username)
PostRandomTweet(username, generated, faults) ==
  /\ LET rt == postRandomTweet(tweets, posted, pinecone, username, generated, faults)
     IN  /\ tweets' = rt.tweets
         /\ posted' = rt.posted
         /\ pinecone' = rt.pinecone
         /\ last' = [op |-> "postRandomTweet", input |-> generated, before |-> Before,
                     error |-> rt.error, result |-> rt.result,
                     published |-> rt.published,
                     publishedText |-> rt.publishedText, stored |-> rt.stored,
                     checks |-> rt.checks, returned |-> rt.returned,
                     faults |-> faults]
  /\ calls' = calls + 1
  /\ UNCHANGED <<pin, pout, longTerm, session, users, now, humanLoop, admits, lateVars>>

\* one call of scrapeTrendingTweets(page, topic)
ScrapeTrendingTweets(topic, scraped, failAt) ==
  /\ LET sc == scrapeTrendingTweets(pinecone, topic, scraped, failAt)
     IN  /\ pinecone' = sc.pinecone
         /\ last' = [op |-> "scrapeTrendingTweets", input |-> topic, before |-> Before,
                     error |-> "none", result |-> sc.result]
  /\ calls' = calls + 1
  /\ UNCHANGED <<pin, pout, longTerm, session, tweets, posted, users, now,
                 humanLoop, admits, lateVars>>

\* what a call of a publish path leaves to be seen
PublishObs(op, input, r, faults) ==
  [op |-> op, input |-> input, before |-> Before, error |-> r.error,
   published |-> r.published, publishedText |-> r.publishedText,
   stored |-> r.stored, checks |-> r.checks, returned |-> r.returned,
   faults |-> faults]

\* one call of postTweet(content) of the browser variant
PostTweetPuppeteer(content, faults) ==
  /\ LET pt == postTweetPuppeteer(tweets, posted, content, faults)
     IN  /\ tweets' = pt.tweets
         /\ posted' = pt.posted
         /\ last' = PublishObs("postTweetPuppeteer", content, pt, faults)
  /\ calls' = calls + 1
  /\ UNCHANGED <<pin, pout, longTerm, pinecone, session, users, now, humanLoop, admits, lateVars>>

\* one call of replyToTweet(client, tweet, reply, mentionId)
ReplyToTweet(tweet, reply, mentionId, apiUser, timeline, faults) ==
  /\ LET rp == replyToTweet(tweets, posted, users, now, tweet, reply, mentionId,
                            apiUser, timeline, faults)
     IN  /\ tweets' = rp.tweets
         /\ posted' = rp.posted
         /\ users' = rp.users
         /\ now' = rp.now
         /\ last' = PublishObs("replyToTweet", reply, rp, faults)
                      @@ [inReplyTo |-> rp.inReplyTo]
  /\ calls' = calls + 1
  /\ UNCHANGED <<pin, pout, longTerm, pinecone, session, humanLoop, admits, lateVars>>

\* one call of replyToTweet(page, tweet, reply) of the browser variant
ReplyToTweetPuppeteer(tweet, reply, faults) ==
  /\ LET rp == replyToTweetPuppeteer(tweets, posted, tweet, reply, faults)
     IN  /\ tweets' = rp.tweets
         /\ posted' = rp.posted
         /\ last' = PublishObs("replyToTweetPuppeteer", reply, rp, faults)
  /\ calls' = calls + 1
  /\ UNCHANGED <<pin, pout, longTerm, pinecone, session, users, now, humanLoop, admits, lateVars>>

\* one round of maybeTweet() in the loop of startHumanLoop
MaybeTweet(streams, faults) ==
  /\ LET mt == maybeTweet(tweets, posted, humanLoop, now, streams, faults)
     IN  /\ tweets' = mt.tweets
         /\ posted' = mt.posted
         /\ humanLoop' = mt.humanLoop
         /\ last' = PublishObs("maybeTweet", streams[1], mt, faults)
  /\ calls' = calls + 1
  /\ UNCHANGED <<pin, pout, longTerm, pinecone, session, users, now, admits, lateVars>>

\* time passes between two calls
Tick(jump) ==
  /\ now' = now + jump
  /\ UNCHANGED <<pin, pout, longTerm, pinecone, session, tweets, posted, users,
                 humanLoop, calls, last, admits, lateVars>>

\* calls whose collaborators do not fail
Next ==
  \/ \E u \in Users, q \in Queries, g \in GenOutputs, b \in Backends :
       calls < MaxCalls /\ GenerateReply(u, q, g, b)
  \/ \E u \in Users, s \in Summaries, q \in Queries, r \in Responses :
       calls < MaxCalls /\ Admit(u, s, q, r, {})

Spec == Init /\ [][Next]_vars

\* calls in which a collaborator may fail
NextFaults ==
  \/ \E u \in Users, q \in FaultQueries, g \in GenOutputs \cup {ShortOutput},
        f \in FaultSets \cup {{}} :
       calls < MaxFaultCalls /\ GenerateReply(u, q, g, f)
  \/ \E u \in Users, s \in Summaries, q \in FaultQueries, r \in Responses,
        f \in AdmitFaultSets \cup {{}} :
       calls < MaxFaultCalls /\ Admit(u, s, q, r, f)

SpecFaults == Init /\ [][NextFaults]_vars

\* direct admissions of many texts that are close to one another
NextWide ==
  \E q \in WideQueries :
    calls < MaxWideCalls /\ Admit("mando_fan", "about beskar", q, "This is the Way.", {})

SpecWide == Init /\ [][NextWide]_vars

\* the calls that publish, record and index tweets
NextTweets ==
  \/ \E c \in TweetContents, f \in {{}, {"tweetsWrite"}} :
       calls < MaxTweetCalls /\ StoreTweet(c, f)
  \/ \E c \in TweetContents, f \in TweetFaultSets :
       calls < MaxTweetCalls /\ PostTweet(c, f)
  \/ \E u \in Users, g \in TweetStreams, f \in TweetFaultSets :
       calls < MaxTweetCalls /\ PostRandomTweet(u, g, f)
  \/ \E t \in Topics, p \in ScrapedPages :
       \E k \in 0..(Len(p) + 1) :
         calls < MaxTweetCalls /\ ScrapeTrendingTweets(t, p, k)

SpecTweets == Init /\ [][NextTweets]_vars

-----------------------------------------------------------------------------
(* utils/memory.ts: addOrUpdateLongTermMemory, one await at a time, for
   callers whose calls interleave *)

\* the texts the interleaved callers admit
ConcurrentQueries == {Query1, Query1b, Query2}

\* whether caller p is inside a call whose query has the normal form `normalized`
InFlightWith(p, normalized) ==
  admits[p].pc # "idle" /\ normalizeQuery(admits[p].query) = normalized

\* a call enters: longTermCollection.updateOne(..., {upsert: true})
AdmitStart(p, username, summary, query, response) ==
  /\ admits[p].pc = "idle"
  /\ longTerm' = Upsert(longTerm, normalizeQuery(query),
                        MemoryRow(username, summary, normalizeQuery(query), response,
                                  classifyContext(query)))
  /\ admits' =
       [c \in Callers |->
          IF c = p THEN
            [pc |-> "wrote", username |-> username, summary |-> summary,
             query |-> query, response |-> response, matches |-> << >>,
             together |-> \E o \in Callers \ {p} :
                            InFlightWith(o, normalizeQuery(query))]
          ELSE IF InFlightWith(c, normalizeQuery(query)) THEN
            [admits[c] EXCEPT !.together = TRUE]
          ELSE admits[c]]
  /\ calls' = calls + 1
  /\ UNCHANGED <<pin, pout, pinecone, session, tweets, posted, users, now, humanLoop,
                 last, lateVars>>

\* getEmbedding(normalized), then pineconeIndex.query({vector, topK: 5})
AdmitProbe(p) ==
  /\ admits[p].pc = "wrote"
  /\ \E matches \in QueryResults(pinecone,
                                  getEmbedding(normalizeQuery(admits[p].query)),
                                  TopK, NoFilter) :
       admits' = [admits EXCEPT ![p].pc = "probed", ![p].matches = matches]
  /\ UNCHANGED <<pin, pout, longTerm, pinecone, session, tweets, posted, users, now,
                 humanLoop, calls, last, lateVars>>

\* the find over the answer, then the skip or pineconeIndex.upsert, and the
\* return
AdmitFinish(p) ==
  /\ admits[p].pc = "probed"
  /\ LET adm == AdmitWith(longTerm, pinecone, admits[p].username, admits[p].summary,
                          admits[p].query, admits[p].response, {}, admits[p].matches)
     IN  /\ pinecone' = adm.pinecone
         /\ last' = [op |-> "admitFinished", caller |-> p,
                     input |-> admits[p].query, together |-> admits[p].together,
                     vector |-> adm.vector, error |-> adm.error, before |-> Before]
  /\ admits' = [admits EXCEPT ![p] = Idle]
  /\ UNCHANGED <<pin, pout, longTerm, session, tweets, posted, users, now, humanLoop,
                 calls, lateVars>>

\* two callers whose calls of addOrUpdateLongTermMemory interleave
NextConcurrent ==
  \/ \E p \in Callers, u \in Users, s \in Summaries, q \in ConcurrentQueries,
        r \in Responses :
       calls < MaxConcurrentCalls /\ AdmitStart(p, u, s, q, r)
  \/ \E p \in Callers : AdmitProbe(p)
  \/ \E p \in Callers : AdmitFinish(p)

SpecConcurrent == Init /\ [][NextConcurrent]_vars

\* one call of fetchLatestTweets(client, username)
FetchLatestTweets(username, apiUser, texts, faults) ==
  /\ LET ft == fetchLatestTweets(tweets, users, now, username, apiUser, texts, faults)
     IN  /\ tweets' = ft.tweets
         /\ users' = ft.users
         /\ now' = ft.now
         /\ last' = [op |-> "fetchLatestTweets", username |-> username,
                     apiUser |-> apiUser, texts |-> texts, before |-> Before, usersBefore |-> users,
                     at |-> now, result |-> ft.result, cached |-> ft.cached,
                     error |-> ft.error, faults |-> faults]
  /\ calls' = calls + 1
  /\ UNCHANGED <<pin, pout, longTerm, pinecone, session, posted, humanLoop, admits, lateVars>>

\* one call of getUserId(client, username)
GetUserId(username, apiUser, faults) ==
  /\ LET gu == getUserId(users, now, username, apiUser, faults)
     IN  /\ users' = gu.users
         /\ last' = [op |-> "getUserId", username |-> username, apiUser |-> apiUser,
                     before |-> Before, usersBefore |-> users, at |-> now,
                     id |-> gu.id, error |-> gu.error, faults |-> faults]
  /\ calls' = calls + 1
  /\ UNCHANGED <<pin, pout, longTerm, pinecone, session, tweets, posted, now,
                 humanLoop, admits, lateVars>>

\* the calls that read and write the caches of 'tweets' and 'users', next to
\* the calls that write the rows of 'tweets' and the two tiers of the memory
NextCache ==
  \/ \E u \in CacheUsers, a \in ApiUsers, tl \in CacheTimelines, f \in FetchFaultSets :
       calls < MaxCacheCalls /\ FetchLatestTweets(u, a, tl, f)
  \/ \E u \in CacheUsers, a \in CacheApiUsers, f \in UserFaultSets :
       calls < MaxCacheCalls /\ GetUserId(u, a, f)
  \/ \E c \in CacheTimelines :
       calls < MaxCacheCalls /\ StoreTweet(c[1], {})
  \/ calls < MaxCacheCalls /\ Admit("din", "about beskar", Query1, "This is the Way.", {})
  \/ \E j \in CacheJumps : now < MaxCacheNow /\ Tick(j)

SpecCache == Init /\ [][NextCache]_vars

\* the state checkLatestMentions starts in
MentionState ==
  [tweets |-> tweets, posted |-> posted, users |-> users, now |-> now,
   repliedMentions |-> repliedMentions, mentionReplies |-> mentionReplies,
   processedCount |-> 0, outcomes |-> << >>]

\* one call of checkLatestMentions(client, botUsername)
CheckLatestMentions(searchResult, replies, apiUser, faults) ==
  /\ LET cm == checkLatestMentions(MentionState, searchResult, replies, apiUser, faults)
     IN  /\ tweets' = cm.tweets
         /\ posted' = cm.posted
         /\ users' = cm.users
         /\ now' = cm.now
         /\ repliedMentions' = cm.repliedMentions
         /\ mentionReplies' = cm.mentionReplies
         /\ last' = [op |-> "checkLatestMentions", searchResult |-> searchResult,
                     before |-> Before, repliedBefore |-> repliedMentions,
                     outcomes |-> cm.outcomes, faults |-> faults, error |-> "none"]
  /\ calls' = calls + 1
  /\ UNCHANGED <<pin, pout, longTerm, pinecone, session, humanLoop, admits, updates,
                 apiLoop, puppetLoop>>

\* the engagement cycles that answer the mentions
NextMentions ==
  \E sr \in SearchResults, r \in ReplyStreams, a \in ApiUsers, f \in MentionFaultSets :
    calls < MaxMentionCalls /\ CheckLatestMentions(sr, r, a, f)

SpecMentions == Init /\ [][NextMentions]_vars

\* the messages a call of updateSessionMessages appends
SessionPairs ==
  {<<Message("user", q), Message("assistant", r)>> :
     q \in {Query1, Query2}, r \in {"This is the Way."}}

\* a call of updateSessionMessages enters: await getSessionMessages(username)
UpdateRead(p, username, newMessages) ==
  /\ updates[p].pc = "idle"
  /\ updates' = [updates EXCEPT ![p] =
                   [pc |-> "read", username |-> username,
                    existing |-> getSessionMessages(session, username),
                    newMessages |-> newMessages]]
  /\ calls' = calls + 1
  /\ UNCHANGED <<pin, pout, longTerm, pinecone, session, tweets, posted, users, now,
                 humanLoop, admits, repliedMentions, mentionReplies, apiLoop, puppetLoop,
                 last>>

\* the call goes on: updateOne({username}, {$set: {messages: [...existing,
\* ...newMessages]}}, {upsert: true}), and returns
UpdateWrite(p) ==
  /\ updates[p].pc = "read"
  /\ session' = Upsert(session, updates[p].username,
                       updates[p].existing \o updates[p].newMessages)
  /\ updates' = [updates EXCEPT ![p] = Idle]
  /\ last' = [op |-> "updateSessionMessages", caller |-> p,
              username |-> updates[p].username,
              newMessages |-> updates[p].newMessages, before |-> Before]
  /\ UNCHANGED <<pin, pout, longTerm, pinecone, tweets, posted, users, now, humanLoop,
                 admits, repliedMentions, mentionReplies, apiLoop, puppetLoop,
                 calls>>

\* two callers whose calls of updateSessionMessages interleave
NextSession ==
  \/ \E p \in Callers, u \in Users, m \in SessionPairs :
       calls < MaxSessionCalls /\ UpdateRead(p, u, m)
  \/ \E p \in Callers : UpdateWrite(p)

SpecSession == Init /\ [][NextSession]_vars

\* two actors who admit and look up the same texts
Actors == {"mando_fan", "grogu_fan"}

NextActors ==
  \/ \E u \in Actors, q \in {Query1, Query1b, Query3}, g \in GenOutputs :
       calls < MaxActorCalls /\ GenerateReply(u, q, g, {})
  \/ \E u \in Actors, q \in {Query1, Query1b, Query3}, r \in Responses :
       calls < MaxActorCalls /\ Admit(u, "about beskar", q, r, {})

SpecActors == Init /\ [][NextActors]_vars

\* one round of the while loop of the Puppeteer startHumanLoop: maybeTweet(),
\* then engageWithTweets(); a throw of either ends the loop
HumanLoopRound(streams, faults) ==
  /\ puppetLoop.running
  /\ LET mt == maybeTweet(tweets, posted, humanLoop, now, streams, faults)
     IN  /\ tweets' = mt.tweets
         /\ posted' = mt.posted
         /\ humanLoop' = mt.humanLoop
         /\ puppetLoop' =
              [running |-> mt.error = "none" /\ "engage" \notin faults,
               windowPosts |->
                 (IF mt.humanLoop.lastTweetBatch # humanLoop.lastTweetBatch
                  THEN 0 ELSE puppetLoop.windowPosts)
                 + (IF mt.published THEN 1 ELSE 0)]
         /\ last' = PublishObs("humanLoopRound", streams[1], mt, faults)
                      @@ [at |-> now, batchBefore |-> humanLoop]
  /\ calls' = calls + 1
  /\ UNCHANGED <<pin, pout, longTerm, pinecone, session, users, now, admits,
                 repliedMentions, mentionReplies, updates, apiLoop>>

\* the rounds of the Puppeteer loop and the time between them
NextQuota ==
  \/ \E g \in QuotaStreams, f \in QuotaFaultSets :
       calls < MaxQuotaRounds /\ HumanLoopRound(g, f)
  \/ now < MaxQuotaNow /\ Tick(TweetBatchTicks)

SpecQuota == Init /\ [][NextQuota]_vars

\* the head of a cycle: the two checks and the test of the batch
LoopVerify(sessionOk, clientOk) ==
  /\ apiLoop.pc = "verify"
  /\ apiLoop.cycles < MaxLoopCycles
  /\ apiLoop' = verifyCycle(apiLoop, now, sessionOk, clientOk)
  /\ last' = [op |-> "loopVerify", sessionOk |-> sessionOk, clientOk |-> clientOk,
              before |-> Before, at |-> now]
  /\ UNCHANGED <<pin, pout, longTerm, pinecone, session, tweets, posted, users, now,
                 humanLoop, admits, repliedMentions, mentionReplies, updates,
                 puppetLoop, calls>>

\* await wait(60000); continue
LoopRetry ==
  /\ apiLoop.pc = "retry"
  /\ apiLoop' = [apiLoop EXCEPT !.pc = "verify"]
  /\ last' = [op |-> "loopRetry", before |-> Before, waited |-> "60 seconds"]
  /\ UNCHANGED <<pin, pout, longTerm, pinecone, session, tweets, posted, users, now,
                 humanLoop, admits, repliedMentions, mentionReplies, updates,
                 puppetLoop, calls>>

\* one pass of the loop of postRandomTweets: postRandomTweet(username)
LoopPostRandomTweet(username, generated, faults) ==
  /\ apiLoop.pc = "posting"
  /\ \E rt \in {postRandomTweet(tweets, posted, pinecone, username, generated,
                                 faults)} :
         /\ tweets' = rt.tweets
         /\ posted' = rt.posted
         /\ pinecone' = rt.pinecone
         /\ apiLoop' = afterAttempt(apiLoop, rt.error)
         /\ last' = [op |-> "loopPostRandomTweet", input |-> generated,
                     before |-> Before, error |-> rt.error,
                     published |-> rt.published, faults |-> faults]
  /\ UNCHANGED <<pin, pout, longTerm, session, users, now, humanLoop, admits,
                 repliedMentions, mentionReplies, updates, puppetLoop, calls>>

\* await engageWithTweets(client), with one name in the list of usernames:
\* checkLatestMentions, then fetchLatestTweets and the replies to what it
\* answered; every failure is caught
LoopEngage(searchResult, replies, apiUser, texts, faults) ==
  /\ apiLoop.pc = "engage"
  /\ \E cm \in {checkLatestMentions(MentionState, searchResult, replies, apiUser,
                                    faults)} :
     \E ft \in {fetchLatestTweets(cm.tweets, cm.users, cm.now, "din", apiUser, texts,
                                  faults)} :
     \E en \in {EngageFetched(cm, ft, replies, apiUser, texts, faults)} :
         /\ tweets' = en.tweets
         /\ posted' = en.posted
         /\ users' = en.users
         /\ now' = en.now
         /\ repliedMentions' = en.repliedMentions
         /\ mentionReplies' = en.mentionReplies
  /\ apiLoop' = [apiLoop EXCEPT !.pc = "sleep"]
  /\ last' = [op |-> "loopEngage", before |-> Before, faults |-> faults]
  /\ UNCHANGED <<pin, pout, longTerm, pinecone, session, humanLoop, admits, updates,
                 puppetLoop, calls>>

\* await wait(15 * 60 * 1000), which lasts at least that long
LoopSleep(ticks) ==
  /\ apiLoop.pc = "sleep"
  /\ now' = now + ticks
  /\ apiLoop' = [apiLoop EXCEPT !.pc = "verify"]
  /\ last' = [op |-> "loopSleep", before |-> Before, waited |-> "15 minutes"]
  /\ UNCHANGED <<pin, pout, longTerm, pinecone, session, tweets, posted, users,
                 humanLoop, admits, repliedMentions, mentionReplies, updates,
                 puppetLoop, calls>>

\* the while loop of the API startHumanLoop after its startup
NextLoop ==
  \/ \E s \in BOOLEAN, c \in BOOLEAN : LoopVerify(s, c)
  \/ LoopRetry
  \/ \E g \in PublishContents, f \in LoopPostFaultSets :
       LoopPostRandomTweet("mando_fan", g, f)
  \/ \E sr \in LoopSearchResults, r \in LoopReplies, a \in ApiUsers,
        tl \in LoopTimelines, f \in LoopFaultSets :
       LoopEngage(sr, r, a, tl, f)
  \/ \E w \in LoopWaits : LoopSleep(w)

SpecLoop == Init /\ [][NextLoop]_vars

\* the loop when its process is scheduled again and again
SpecLoopFair == SpecLoop /\ WF_vars(NextLoop)

\* every path that publishes a tweet or a reply
NextPublish ==
  \/ \E c \in PublishContents, f \in PostFaultSets \cup {{"tweetApi"}} :
       calls < MaxPublishCalls /\ PostTweet(c, f)
  \/ \E c \in PublishContents, f \in PostFaultSets \cup {{"page"}} :
       calls < MaxPublishCalls /\ PostTweetPuppeteer(c, f)
  \/ \E u \in Users, g \in PublishContents,
        f \in {{}, {"tweetsRead"}, {"tweetsWrite"}, {"upsertTweet"}} :
       calls < MaxPublishCalls /\ PostRandomTweet(u, g, f)
  \/ \E r \in PublishContents, m \in MentionIds, a \in ApiUsers, tl \in Timelines,
        f \in ReplyFaultSets :
       calls < MaxPublishCalls /\ ReplyToTweet(RepliedTweet, r, m, a, tl, f)
  \/ \E r \in PublishContents, f \in {{}, {"tweetsRead"}, {"tweetsWrite"}, {"page"}} :
       calls < MaxPublishCalls /\ ReplyToTweetPuppeteer(RepliedTweet, r, f)
  \/ \E g \in GenSequences, f \in PostFaultSets \cup {{"page"}, {"selfTweet"}} :
       calls < MaxPublishCalls /\ MaybeTweet(g, f)
  \/ \E j \in ClockJumps : now < MaxNow /\ Tick(j)

SpecPublish == Init /\ [][NextPublish]_vars

-----------------------------------------------------------------------------
(* The two normalizers applied to arbitrary short strings *)

\* characters of the strings: a quote, a blank, a lower and an upper case letter
PureAlphabet == {"\"", " ", "a", "A"}

RECURSIVE StringsUpTo(_)
StringsUpTo(n) ==
  IF n = 0 THEN {""}
  ELSE LET shorter == StringsUpTo(n - 1)
       IN  shorter \cup {s \o c : s \in shorter, c \in PureAlphabet}

InitPure ==
  /\ pin \in StringsUpTo(MaxLen)
  /\ pout = [fn |-> "none"]
  /\ MemInit

ApplyNormalizeQuery ==
  /\ pout.fn = "none"
  /\ pout' = [fn |-> "normalizeQuery", once |-> normalizeQuery(pin),
              twice |-> normalizeQuery(normalizeQuery(pin))]
  /\ UNCHANGED <<pin, longTerm, pinecone, session, tweets, posted, calls, last,
                 users, now, humanLoop, admits, lateVars>>

ApplySanitizeTweet ==
  /\ pout.fn = "none"
  /\ pout' = [fn |-> "sanitizeTweet", once |-> sanitizeTweet(pin),
              twice |-> sanitizeTweet(sanitizeTweet(pin))]
  /\ UNCHANGED <<pin, longTerm, pinecone, session, tweets, posted, calls, last,
                 users, now, humanLoop, admits, lateVars>>

NextPure == ApplyNormalizeQuery \/ ApplySanitizeTweet

SpecPure == InitPure /\ [][NextPure]_vars

-----------------------------------------------------------------------------
(* classifyContext applied to texts made of a few pieces, and the context
   key generateReply looks up with *)

\* pieces of text: white space, a question mark, words in lower and upper
\* case that hold a keyword or an interrogative inside, and letters that
\* make up an interrogative when put together
Pieces == {" ", "\n", "?", "This", "ETH", "Star", "wars", "anime fun", "Love", "d", "o"}

RECURSIVE PiecesUpTo(_)
PiecesUpTo(n) ==
  IF n = 0 THEN {""}
  ELSE LET shorter == PiecesUpTo(n - 1)
       IN  shorter \cup {s \o p : s \in shorter, p \in Pieces}

\* the filter key of a lookup: generateReply classifies the normalized input
\* and passes intent and topic on; queryPineconeSimilarity normalizes again
\* and takes the tone of its own classification
LookupContext(normalized) ==
  [intent |-> classifyContext(normalized).intent,
   topic  |-> classifyContext(normalized).topic,
   tone   |-> classifyContext(normalizeQuery(normalized)).tone]

InitClassify ==
  /\ pin \in PiecesUpTo(MaxPieces)
  /\ pout = [fn |-> "none"]
  /\ MemInit

\* classifyContext(pin) as addOrUpdateLongTermMemory(.., pin, ..) stores it,
\* and the key generateReply(.., pin) filters with
ApplyClassifyContext ==
  /\ pout.fn = "none"
  /\ pout' = [fn |-> "classifyContext", stored |-> classifyContext(pin),
              lookup |-> LookupContext(normalizeQuery(pin))]
  /\ UNCHANGED <<pin, longTerm, pinecone, session, tweets, posted, calls, last,
                 users, now, humanLoop, admits, lateVars>>

NextClassify == ApplyClassifyContext

SpecClassify == InitClassify /\ [][NextClassify]_vars

-----------------------------------------------------------------------------
(* Properties *)

\* the context stored with a vector entry or a row
StoredContext(metadata) ==
  [intent |-> Field(metadata, "intent"), topic |-> Field(metadata, "topic"),
   tone |-> Field(metadata, "tone")]

\* the context generateReply and addOrUpdateLongTermMemory classify for a query
QueryContext(query) ==
  LET ctx == classifyContext(normalizeQuery(query))
  IN  [intent |-> ctx.intent, topic |-> ctx.topic, tone |-> ctx.tone]

\* C1: when an exact row exists for the normalized query, generateReply
\* returns that row's response verbatim, and consults neither the embedding
\* provider, nor the vector index, nor the generator; the stores are unchanged.
ExactOverSemantic ==
  (/\ last.op = "generateReply"
   /\ normalizeQuery(last.input) \in DOMAIN last.before.longTerm)
  => /\ last.error = "none"
     /\ last.result = last.before.longTerm[normalizeQuery(last.input)].response
     /\ last.source = "mongo"
     /\ ~last.usedEmbedding /\ ~last.usedVector /\ ~last.usedGenerator
     /\ longTerm = last.before.longTerm
     /\ pinecone = last.before.pinecone

\* C1 witness: generateReply answered a query that had an exact row while the
\* index held an entry of another text, of the same context, similar enough
\* for the read path, with a different response
ExactOverSemanticSeen ==
  /\ last.op = "generateReply"
  /\ normalizeQuery(last.input) \in DOMAIN last.before.longTerm
  /\ \E id \in DOMAIN last.before.pinecone :
       LET entry == last.before.pinecone[id]
       IN  /\ entry.metadata.query # normalizeQuery(last.input)
           /\ Cosine(entry.values, getEmbedding(normalizeQuery(last.input)))
                >= ReadThreshold
           /\ StoredContext(entry.metadata) = QueryContext(last.input)
           /\ entry.metadata.response
                # last.before.longTerm[normalizeQuery(last.input)].response
           /\ last.result # entry.metadata.response

\* C2: whenever a row and a vector entry exist for the same normalized query,
\* they carry the same response, summary and context.
ReplicationInvariant ==
  \A q \in DOMAIN longTerm :
    \A id \in DOMAIN pinecone :
      pinecone[id].metadata.query = q
      => /\ pinecone[id].metadata.response = longTerm[q].response
         /\ pinecone[id].metadata.summary = longTerm[q].summary
         /\ StoredContext(pinecone[id].metadata) = StoredContext(longTerm[q])

\* C3: when admit returns and the index held an entry of the query's context
\* whose similarity to the new embedding is at least the write threshold, the
\* index has as many entries as before.
WriteSuppression ==
  (/\ last.op = "admit"
   /\ last.error = "none"
   /\ \E id \in DOMAIN last.before.pinecone :
        LET entry == last.before.pinecone[id]
        IN  /\ StoredContext(entry.metadata) = QueryContext(last.input)
            /\ Cosine(entry.values, getEmbedding(normalizeQuery(last.input)))
                 >= WriteThreshold)
  => Cardinality(DOMAIN pinecone) = Cardinality(DOMAIN last.before.pinecone)

\* C4: no two entries of the vector index have a similarity of at least the
\* write threshold and the same context.
NoNearDuplicateEntries ==
  \A i \in DOMAIN pinecone :
    \A j \in DOMAIN pinecone :
      (/\ i # j
       /\ StoredContext(pinecone[i].metadata) = StoredContext(pinecone[j].metadata))
      => Cosine(pinecone[i].values, pinecone[j].values) < WriteThreshold

\* C5: after any sequence of publish operations and storeTweet calls,
\* 'tweets' holds at most one row per normalized text.
EmittedContentUnique ==
  \A row \in BagToSet(tweets) : CopiesIn(row, tweets) <= 1

\* C6: applying a normalizer to its own result changes nothing, for
\* normalizeQuery and for sanitizeTweet.
NormalizersIdempotent ==
  pout.fn # "none" => pout.twice = pout.once

\* C7: when the read of the exact tier fails, generateReply raises an error,
\* returns no response and goes on neither to the semantic path nor to the
\* generator.
ExactReadFailurePropagates ==
  (last.op = "generateReply" /\ last.readFailed)
  => /\ last.error # "none"
     /\ last.result = Null
     /\ ~last.usedEmbedding /\ ~last.usedVector /\ ~last.usedGenerator

\* C8: generateReply never raises a failure of the embedding provider or of
\* the index query of the lookup: it treats it as a miss.
SemanticFailureIsMiss ==
  last.op = "generateReply" => last.error \notin {"embedLookup", "queryLookup"}

\* C9: a call of addOrUpdateLongTermMemory does not raise a failure of the
\* embedding provider to its caller.
AdmitSurvivesEmbeddingFailure ==
  last.op = "admit" => last.error # "embedAdmit"

\* C10: a response generateReply takes from the vector index is that of an
\* entry whose stored intent, topic and tone are those classified for the
\* query, whatever candidates the index returned.
ContextIsolation ==
  (last.op = "generateReply" /\ last.source = "pinecone")
  => /\ last.match # NoMatch
     /\ last.result = last.match.metadata.response
     /\ StoredContext(last.match.metadata) = QueryContext(last.input)
     /\ last.match.score >= ReadThreshold

\* C10 witness: the index returned, ahead of the entry generateReply answered
\* from, a candidate of another context whose score passes the read threshold
ContextIsolationSeen ==
  /\ last.op = "generateReply"
  /\ last.source = "pinecone"
  /\ \E i \in 1..Len(last.candidates) :
       /\ last.candidates[i].score >= ReadThreshold
       /\ last.candidates[i].score > last.match.score
       /\ StoredContext(last.candidates[i].metadata) # QueryContext(last.input)
       /\ last.candidates[i].metadata.response # last.result


\* the positions, in the index's answer to the last generateReply, of the
\* candidates of the query's context whose score is at least the read threshold
AcceptableCandidates ==
  {i \in 1..Len(last.candidates) :
     /\ last.candidates[i].score >= ReadThreshold
     /\ StoredContext(last.candidates[i].metadata) = QueryContext(last.input)}

\* C11: on the semantic path a candidate of the query's context is accepted
\* iff its score is at least 0.85, and the candidate answered from is the
\* first one, in the order the index returned, that passes both tests; with no
\* such candidate the lookup is a miss.
ReadThresholdBoundary ==
  (last.op = "generateReply" /\ last.usedVector /\ last.error = "none")
  => IF AcceptableCandidates = {}
     THEN last.match = NoMatch /\ last.source = "openai"
     ELSE /\ last.match
               = last.candidates[CHOOSE i \in AcceptableCandidates :
                                   \A j \in AcceptableCandidates : i <= j]
          /\ last.source = "pinecone"
          /\ last.result = last.match.metadata.response

\* C11 witness: generateReply answered from a candidate whose score is exactly
\* the read threshold, which the index returned after a candidate of another
\* context with a higher score
ReadThresholdBoundarySeen ==
  /\ last.op = "generateReply"
  /\ last.source = "pinecone"
  /\ last.match.score = ReadThreshold
  /\ \E i \in 1..Len(last.candidates) :
       /\ last.candidates[i].score > ReadThreshold
       /\ StoredContext(last.candidates[i].metadata) # QueryContext(last.input)


\* the entries the index held before the last call that have the context of
\* its query and a similarity to its embedding of at least `threshold`
NeighboursBefore(threshold) ==
  {id \in DOMAIN last.before.pinecone :
     /\ StoredContext(last.before.pinecone[id].metadata) = QueryContext(last.input)
     /\ Cosine(last.before.pinecone[id].values,
               getEmbedding(normalizeQuery(last.input))) >= threshold}

\* C12: when admit returns and the index held no entry of the query's context
\* within the write threshold, the index holds a new entry under the id derived
\* from the normalized query, with the new embedding and the arguments of the
\* call, and every entry it held before is still there unchanged.
AdmitBelowWriteThreshold ==
  (last.op = "admit" /\ last.error = "none" /\ NeighboursBefore(WriteThreshold) = {})
  => LET normalized == normalizeQuery(last.input)
         id == Base64(normalized)
     IN  /\ last.admit.vector = "upserted"
         /\ id \notin DOMAIN last.before.pinecone
         /\ id \in DOMAIN pinecone
         /\ pinecone[id].values = getEmbedding(normalized)
         /\ pinecone[id].metadata.query = normalized
         /\ pinecone[id].metadata.response = last.admit.response
         /\ pinecone[id].metadata.summary = last.admit.summary
         /\ StoredContext(pinecone[id].metadata) = QueryContext(last.input)
         /\ \A old \in DOMAIN last.before.pinecone :
              old \in DOMAIN pinecone /\ pinecone[old] = last.before.pinecone[old]

\* C12 witness: admit added an entry while the index held an entry of the same
\* context that passes the read threshold and not the write threshold
AdmitBelowWriteThresholdSeen ==
  /\ last.op = "admit"
  /\ last.error = "none"
  /\ NeighboursBefore(ReadThreshold) # {}
  /\ NeighboursBefore(WriteThreshold) = {}
  /\ Cardinality(DOMAIN pinecone) = Cardinality(DOMAIN last.before.pinecone) + 1


\* the last two calls were addOrUpdateLongTermMemory with the same arguments,
\* and both returned
AdmittedTwice ==
  /\ last.op = "admit"
  /\ last.error = "none"
  /\ last.prior = [op |-> "admit", username |-> last.username, input |-> last.input,
                   summary |-> last.admit.summary, response |-> last.admit.response,
                   error |-> "none"]

\* the entries of the index that have the context of the last call's query and
\* a similarity to its embedding of at least the write threshold
ClusterNow ==
  {id \in DOMAIN pinecone :
     /\ StoredContext(pinecone[id].metadata) = QueryContext(last.input)
     /\ Cosine(pinecone[id].values, getEmbedding(normalizeQuery(last.input)))
          >= WriteThreshold}

\* C13: after two calls of admit with identical arguments the index holds
\* exactly one entry of the query's cluster (same context, similarity at least
\* the write threshold), and the exact row of the normalized query carries the
\* summary, response and context of the call.
AdmitIdempotent ==
  AdmittedTwice
  => LET normalized == normalizeQuery(last.input)
     IN  /\ Cardinality(ClusterNow) = 1
         /\ normalized \in DOMAIN longTerm
         /\ longTerm[normalized].summary = last.admit.summary
         /\ longTerm[normalized].response = last.admit.response
         /\ StoredContext(longTerm[normalized]) = QueryContext(last.input)


\* the raw texts of the inputs that normalize to the key of the last call's query
SameKeyTexts ==
  {raw \in Queries : normalizeQuery(raw) = normalizeQuery(last.input)}

\* C14: every admit(q, s, r) whose row write did not fail leaves the exact row
\* of normalize(q) holding s, r and the context of q, whether the vector write
\* was done, suppressed or failed, so that a lookup that follows at once, of
\* any raw text with the same key, is answered r from the exact tier.
ExactTierLastWriterWins ==
  (last.op = "admit" /\ last.error # "mongoWrite")
  => LET normalized == normalizeQuery(last.input)
     IN  /\ normalized \in DOMAIN longTerm
         /\ longTerm[normalized].response = last.admit.response
         /\ longTerm[normalized].summary = last.admit.summary
         /\ StoredContext(longTerm[normalized]) = QueryContext(last.input)
         /\ \A raw \in SameKeyTexts, g \in GenOutputs :
              \A out \in generateReply(longTerm, pinecone, session, last.username,
                                       raw, g, {}) :
                /\ out.error = "none"
                /\ out.source = "mongo"
                /\ out.result = last.admit.response

\* C14 witness: admit of a raw text that is not its own key replaced the
\* response of an existing row while its vector write was suppressed
ExactTierLastWriterWinsSeen ==
  /\ last.op = "admit"
  /\ last.error = "none"
  /\ last.admit.vector = "skipped"
  /\ last.input # normalizeQuery(last.input)
  /\ normalizeQuery(last.input) \in DOMAIN last.before.longTerm
  /\ last.before.longTerm[normalizeQuery(last.input)].response # last.admit.response
  /\ longTerm[normalizeQuery(last.input)].response = last.admit.response


\* C15: when generateReply returns a response taken from the vector index, the
\* exact row of the normalized query holds that response, so that the next
\* lookup of the query is answered from the exact tier; and when that row
\* existed before the call, the call did not write it again.
BackfillOnSemanticHit ==
  (last.op = "generateReply" /\ last.source = "pinecone" /\ last.error = "none")
  => LET normalized == normalizeQuery(last.input)
     IN  /\ normalized \in DOMAIN longTerm
         /\ longTerm[normalized].response = last.result
         /\ \A g \in GenOutputs :
              \A out \in generateReply(longTerm, pinecone, session, last.username,
                                       last.input, g, {}) :
                out.source = "mongo" /\ out.result = last.result
         /\ normalized \in DOMAIN last.before.longTerm
              => last.admit = NoAdmit /\ longTerm = last.before.longTerm


\* C16: a call of generateReply that answers from the vector index leaves the
\* index as it was: it creates no entry and overwrites none.
LookupLeavesIndexUnchanged ==
  (last.op = "generateReply" /\ last.source = "pinecone")
  => pinecone = last.before.pinecone


\* texts that differ from t only in letter case or in surrounding white space
CaseAndSpaceVariants(t) ==
  {t, toLowerCase(t), " " \o t, t \o " ", " " \o t \o "\n"}

\* C17: hasTweet(t) is false while 'tweets' holds no row of the normalized form
\* of t, and after storeTweet(t) has returned hasTweet is true of t and of
\* every text that differs from t only in letter case or surrounding white space.
DedupGuardRoundTrip ==
  /\ \A t \in TweetContents :
       (\A row \in BagToSet(tweets) : row.text # sanitizeTweet(t))
       => ~hasTweet(tweets, t, {})
  /\ (last.op = "storeTweet" /\ last.error = "none")
     => \A v \in CaseAndSpaceVariants(last.input) : hasTweet(tweets, v, {})


\* the operations that may publish a tweet or a reply
PublishOps ==
  {"postTweet", "postTweetPuppeteer", "postRandomTweet", "replyToTweet",
   "replyToTweetPuppeteer", "maybeTweet"}

\* C18: on every publish path the external publish happens only after
\* hasTweet answered false for the sanitized content in the same operation:
\* the last call of hasTweet of a publishing operation was made with the
\* published text and answered false, hasTweet answered true for no text
\* that is published, a published text was not in 'tweets' when the guard
\* could be read, and an operation whose last check answered true leaves
\* the published tweets as they were.
CheckBeforePublish ==
  last.op \in PublishOps =>
    /\ last.published =>
          /\ last.checks # << >>
          /\ last.checks[Len(last.checks)] =
                [content |-> last.publishedText, answer |-> FALSE]
          /\ \A i \in 1..Len(last.checks) :
                last.checks[i].answer => last.checks[i].content # last.publishedText
          /\ "tweetsRead" \notin last.faults =>
                ~BagIn(TweetRow(sanitizeTweet(last.publishedText)), last.before.tweets)
    /\ ~last.published => posted = last.before.posted
    /\ (last.checks # << >> /\ last.checks[Len(last.checks)].answer) =>
          ~last.published

\* maybeTweet met a duplicate, regenerated and published the new text
CheckBeforePublishSeen ==
  /\ last.op = "maybeTweet"
  /\ last.published
  /\ Len(last.checks) >= 3
  /\ last.checks[1].answer
  /\ last.checks[1].content # last.publishedText


\* C19: whenever an external publish succeeds, storeTweet is invoked for the
\* same sanitized text before the operation returns, so that, when the
\* store does not fail, the published text is in 'tweets' when the
\* operation completes.
RecordAfterPublish ==
  (last.op \in PublishOps /\ last.published /\ "tweetsWrite" \notin last.faults) =>
    /\ last.stored = last.publishedText
    /\ BagIn(TweetRow(last.publishedText), tweets)


\* two calls of one operation, one after the other, that both returned, one
\* having written or published and the other having been suppressed
PerformedThenSuppressed ==
  \/ /\ last.op = "admit" /\ last'.op = "admit"
     /\ last.error = "none" /\ last'.error = "none"
     /\ last.admit.vector # last'.admit.vector
  \/ /\ last.op \in {"postTweet", "postTweetPuppeteer"} /\ last'.op = last.op
     /\ last.error = "none" /\ last'.error = "none"
     /\ last.published # last'.published

\* a call that was suppressed as a duplicate
Suppressed ==
  \/ last.op = "admit" /\ last.admit.vector = "skipped"
  \/ /\ last.op \in {"postTweet", "postTweetPuppeteer"}
     /\ last.checks # << >>
     /\ last.checks[Len(last.checks)].answer

\* C20: duplicate suppression is a distinguishable, non-exceptional outcome:
\* a call of addOrUpdateLongTermMemory or of postTweet that was suppressed
\* returns a result that differs from the result of a call that wrote or
\* published, and a suppressed call raises no error.
SuppressionDistinguishable ==
  /\ [][PerformedThenSuppressed => last.returned # last'.returned]_vars
  /\ [](Suppressed => last.error = "none")


\* the entries of the index that were made for the text
EntriesFor(normalized) ==
  {id \in DOMAIN pinecone : pinecone[id].metadata.query = normalized}

\* no caller is inside addOrUpdateLongTermMemory, and the call that returned
\* last ran together with a call of the other caller for the same normal form
SameTextAdmittedTogether ==
  /\ \A p \in Callers : admits[p].pc = "idle"
  /\ last.op = "admitFinished"
  /\ last.together

\* the vector id is a function of the normalized query that takes equal
\* values only for equal normalized queries
VectorIdInjective ==
  \A a \in ConcurrentQueries, b \in ConcurrentQueries :
    Base64(normalizeQuery(a)) = Base64(normalizeQuery(b))
      <=> normalizeQuery(a) = normalizeQuery(b)

\* C21 as stated: after any interleaving of two admit calls whose queries
\* normalize to the same text the index holds exactly one entry for that
\* text, the vector id being a deterministic, injective function of the
\* normalized query.
ConcurrentAdmitOneEntryStated ==
  SameTextAdmittedTogether =>
    /\ Cardinality(EntriesFor(normalizeQuery(last.input))) = 1
    /\ VectorIdInjective

\* C21: after any interleaving of two admit calls whose queries normalize
\* to the same text the index holds at most one entry for that text, under
\* the id derived from it, and it holds none only when it holds an entry of
\* another text of the same context within the write threshold, for which
\* both calls were skipped; the vector id is a deterministic, injective
\* function of the normalized query.
ConcurrentAdmitOneEntry ==
  SameTextAdmittedTogether =>
    /\ EntriesFor(normalizeQuery(last.input)) \subseteq
         {Base64(normalizeQuery(last.input))}
    /\ EntriesFor(normalizeQuery(last.input)) = {} =>
         /\ ClusterNow # {}
         /\ last.vector = "skipped"
    /\ VectorIdInjective

\* two calls for one normal form given as two different raw texts ran
\* together, both probed the index before either wrote to it, and both
\* upserted
ConcurrentAdmitOneEntrySeen ==
  /\ SameTextAdmittedTogether
  /\ last.vector = "upserted"
  /\ Cardinality(EntriesFor(normalizeQuery(last.input))) = 1
  /\ \E id \in DOMAIN last.before.pinecone :
       last.before.pinecone[id].metadata.query = normalizeQuery(last.input)


\* C22: for every raw query text the context key of the lookup filter
\* (classifyContext of the normalized text, with the intent and topic
\* generateReply passes on) equals the context key admit stores for the same
\* text (classifyContext of the text as passed), that is
\* classifyContext(normalizeQuery(x)) = classifyContext(x).
LookupAdmitContextConsistent ==
  pout.fn = "classifyContext" =>
    /\ pout.lookup = pout.stored
    /\ classifyContext(normalizeQuery(pin)) = classifyContext(pin)

\* a text that normalization changes, in case and at its ends, and that has
\* a topic and a tone
LookupAdmitContextConsistentSeen ==
  /\ pout.fn = "classifyContext"
  /\ toLowerCase(pin) # pin
  /\ trim(pin) # pin
  /\ pout.stored.topic = "starwars"
  /\ pout.stored.tone = "serious"


\* the orders of the keyword groups
TopicOrder ==
  <<"crypto", "starwars", "anime", "music", "movie", "celebrity", "tech", "alien",
    "popculture">>
ToneOrder == <<"empathetic", "playful", "serious">>

\* the keyword groups a lowered text matches, by their place in the order
MatchedTopics(q) == {i \in 1..Len(TopicRules) : ContainsAny(q, TopicRules[i].pats)}
MatchedTones(q)  == {i \in 1..Len(ToneRules) : ContainsAny(q, ToneRules[i].pats)}

\* the least element of a non-empty set of numbers
Least(S) == CHOOSE i \in S : \A j \in S : i <= j

\* C23: classifyContext returns as topic the first matching keyword group
\* in the order crypto, starwars, anime, music, movie, celebrity, tech,
\* alien, popculture, else 'other', and as tone the first match in the order
\* empathetic, playful, serious, else 'neutral'; a text that matches several
\* groups gets the earliest one, and every text gets a value.
ClassifierPriorityOrder ==
  pout.fn = "classifyContext" =>
    /\ [i \in 1..Len(TopicRules) |-> TopicRules[i].topic] = TopicOrder
    /\ [i \in 1..Len(ToneRules) |-> ToneRules[i].tone] = ToneOrder
    /\ pout.stored.topic =
         IF MatchedTopics(toLowerCase(pin)) = {} THEN "other"
         ELSE TopicOrder[Least(MatchedTopics(toLowerCase(pin)))]
    /\ pout.stored.tone =
         IF MatchedTones(toLowerCase(pin)) = {} THEN "neutral"
         ELSE ToneOrder[Least(MatchedTones(toLowerCase(pin)))]
    /\ pout.stored.intent \in {"question", "statement"}

\* a text that matches two topic groups and two tone groups
ClassifierPriorityOrderSeen ==
  /\ pout.fn = "classifyContext"
  /\ Cardinality(MatchedTopics(toLowerCase(pin))) >= 2
  /\ Cardinality(MatchedTones(toLowerCase(pin))) >= 2


\* the interrogative words
Interrogatives ==
  {"what", "why", "how", "who", "when", "is", "are", "do", "does", "should"}

Letters ==
  {"a", "b", "c", "d", "e", "f", "g", "h", "i", "j", "k", "l", "m", "n", "o", "p",
   "q", "r", "s", "t", "u", "v", "w", "x", "y", "z"}

\* whether w stands in the lowered text s as a word: with no letter right
\* before it and none right after it
HasWord(s, w) ==
  \E i \in 1..(Len(s) - Len(w) + 1) :
    /\ SubSeq(s, i, i + Len(w) - 1) = w
    /\ i = 1 \/ SubSeq(s, i - 1, i - 1) \notin Letters
    /\ i + Len(w) - 1 = Len(s) \/ SubSeq(s, i + Len(w), i + Len(w)) \notin Letters

\* C24: classifyContext returns intent 'question' exactly when the text
\* holds a question mark or one of the interrogative words as a word, and
\* 'statement' otherwise, also when an interrogative is part of another word.
ClassifierIntentByWord ==
  pout.fn = "classifyContext" =>
    (pout.stored.intent = "question"
       <=> \/ Contains(pin, "?")
           \/ \E w \in Interrogatives : HasWord(toLowerCase(pin), w))


\* the exact tier held no row for the input of the last call
ExactMissBefore ==
  searchValidCachedMemory(last.before.longTerm, last.username, last.input, FALSE)
    = NoRow

\* the entries the index held before the last call that a lookup of its
\* input may reuse: same context, similarity at least the read threshold, a
\* response to return
ReusableBefore ==
  {id \in NeighboursBefore(ReadThreshold) :
     Truthy(Field(last.before.pinecone[id].metadata, "response"))}

\* C25: a lookup, without an exact row of its own, of a text whose embedding
\* is within the read threshold of an entry admit stored, with the same
\* classified context, returns a stored response of such an entry, the one
\* of the best score, and does not invoke the generator; the generator runs
\* only after both the exact and the semantic tier missed.
ReuseWithoutGeneration ==
  (last.op = "generateReply" /\ last.error = "none") =>
    /\ (ExactMissBefore /\ ReusableBefore # {}) =>
          /\ last.source = "pinecone"
          /\ ~last.usedGenerator
          /\ last.match.id \in ReusableBefore
          /\ last.result = last.before.pinecone[last.match.id].metadata.response
          /\ \A id \in ReusableBefore :
                Cosine(last.before.pinecone[id].values,
                       getEmbedding(normalizeQuery(last.input))) <= last.match.score
    /\ last.usedGenerator => (ExactMissBefore /\ ReusableBefore = {})

\* a lookup of another phrasing than the stored one was answered from the
\* index
ReuseWithoutGenerationSeen ==
  /\ last.op = "generateReply"
  /\ last.error = "none"
  /\ ExactMissBefore
  /\ last.source = "pinecone"
  /\ ~last.usedGenerator
  /\ last.match.metadata.query # normalizeQuery(last.input)
  /\ last.match.score < 10000


\* the message pair generateReply appends for its last call
LastMessagePair ==
  << Message("user", last.input), Message("assistant", last.result) >>

\* C26: generateReply appends the (user, assistant) message pair to the
\* session history of the user only after admit has completed successfully;
\* when admit fails, or a cached response is returned, the session history
\* is unchanged.
SessionAppendedAfterAdmit ==
  last.op = "generateReply" =>
    /\ session # last.before.session =>
          /\ last.error = "none"
          /\ last.usedGenerator
          /\ last.admit.called /\ last.admit.error = "none"
          /\ session = updateSessionMessages(last.before.session, last.username,
                                             LastMessagePair)
    /\ (last.admit.called /\ last.admit.error # "none") =>
          session = last.before.session
    /\ last.source \in {"mongo", "pinecone"} => session = last.before.session

\* the generator ran and admit failed
SessionAppendedAfterAdmitSeen ==
  /\ last.op = "generateReply"
  /\ last.usedGenerator
  /\ last.admit.called
  /\ last.admit.error # "none"
  /\ last.username \in DOMAIN last.before.session


\* the documents of 'tweets' that storeTweet wrote
EmittedRows(tw) == {d \in BagToSet(tw) : "text" \in DOMAIN d}

\* the per-user cache documents of 'tweets'
CacheDocs(tw) == {d \in BagToSet(tw) : "username" \in DOMAIN d}

\* C27: over any sequence of operations the keys of the exact tier, the ids
\* of the vector entries and the emitted-content rows only grow; an emitted
\* row is never modified or removed, the upsert of the per-user tweet cache
\* in the same collection included.
NoDeletion ==
  [][ /\ DOMAIN longTerm \subseteq DOMAIN longTerm'
      /\ DOMAIN pinecone \subseteq DOMAIN pinecone'
      /\ \A row \in EmittedRows(tweets) :
            CopiesIn(row, tweets') >= CopiesIn(row, tweets)
      /\ \A row \in EmittedRows(tweets') :
            CopiesIn(row, tweets') > CopiesIn(row, tweets)
              => row = TweetRow(sanitizeTweet(last'.input)) ]_vars

\* the cache upsert has overwritten the entry of a user in a collection that
\* holds an emitted row
NoDeletionSeen ==
  /\ last.op = "fetchLatestTweets"
  /\ EmittedRows(last.before.tweets) # {}
  /\ DocsOf(last.before.tweets, last.username) # {}
  /\ DocsOf(tweets, last.username) # DocsOf(last.before.tweets, last.username)
  /\ EmittedRows(tweets) = EmittedRows(last.before.tweets)

\* the answer of getUserId in a call without failures
ResolvedUser(us, t, username, apiUser) == getUserId(us, t, username, apiUser, {}).id

\* C28: fetchLatestTweets returns the cached tweets of a user only if the
\* cachedUntil of the cache entry is >= the current time, cachedUntil having
\* been set to cachedAt + 15 minutes at the write; once the entry has
\* expired the next call fetches from the API and overwrites the entry with
\* a new cachedUntil.
TweetCacheFreshness ==
  /\ \A d \in CacheDocs(tweets) : d.cachedUntil = d.cachedAt + CacheTicks
  /\ (last.op = "fetchLatestTweets" /\ last.error = "none") =>
       /\ last.cached <=> FreshDocsOf(last.before.tweets, last.username, last.at) # {}
       /\ last.cached =>
             /\ tweets = last.before.tweets
             /\ \E d \in DocsOf(last.before.tweets, last.username) :
                   d.cachedUntil >= last.at /\ last.result = d.tweets
       /\ (~last.cached /\ last.faults = {}
             /\ ResolvedUser(last.usersBefore, last.at, last.username,
                              last.apiUser) # Null) =>
             /\ last.result = TweetDataOf(last.username, last.texts, last.at)
             /\ DocsOf(tweets, last.username)
                  = {CacheDoc(last.username, last.result, last.at)}
       /\ (~last.cached /\ tweets # last.before.tweets) =>
             DocsOf(tweets, last.username)
               = {CacheDoc(last.username, last.result, last.at)}

\* an expired entry has been overwritten with a later cachedUntil
TweetCacheFreshnessSeen ==
  /\ last.op = "fetchLatestTweets"
  /\ ~last.cached
  /\ \E old \in DocsOf(last.before.tweets, last.username) :
        /\ old.cachedUntil < last.at
        /\ \E new \in DocsOf(tweets, last.username) :
              new.cachedUntil = last.at + CacheTicks /\ new.tweets # old.tweets

\* the entry of 'users' is younger than 24 hours at the call
FreshUser(us, t, username) ==
  username \in DOMAIN us /\ us[username].cachedAt >= t - UserCacheTicks

\* C29: getUserId returns a cached id only if its cachedAt is within the last
\* 24 hours; otherwise it asks the API and on success upserts the entry with
\* cachedAt = now; a failed or empty API lookup returns null and leaves the
\* cache unchanged.
UserCacheFreshness ==
  (last.op = "getUserId" /\ last.error = "none") =>
    /\ FreshUser(last.usersBefore, last.at, last.username) =>
          /\ last.id = last.usersBefore[last.username].id
          /\ users = last.usersBefore
    /\ (~FreshUser(last.usersBefore, last.at, last.username)
          /\ last.apiUser # Null /\ last.faults = {}) =>
          /\ last.id = last.apiUser
          /\ users = Upsert(last.usersBefore, last.username,
                            CachedUser(last.apiUser, last.at))
    /\ (~FreshUser(last.usersBefore, last.at, last.username)
          /\ (last.apiUser = Null \/ "userApi" \in last.faults)) =>
          /\ last.id = Null
          /\ users = last.usersBefore

\* an entry older than 24 hours has been passed over for the answer of the API
UserCacheFreshnessSeen ==
  /\ last.op = "getUserId"
  /\ last.username \in DOMAIN last.usersBefore
  /\ last.usersBefore[last.username].cachedAt < last.at - UserCacheTicks
  /\ last.id # Null
  /\ last.id # last.usersBefore[last.username].id
  /\ users[last.username].cachedAt = last.at


\* C30: maybeTweet of the browser loop skips posting only when the candidate
\* generated last is still a duplicate: whenever its regeneration loop ends
\* with a candidate for which hasTweet answered false, the candidate
\* produced by the fifth regeneration included, the candidate is posted.
MaybeTweetPostsUniqueCandidate ==
  (/\ last.op = "maybeTweet"
   /\ last.faults = {}
   /\ last.checks # << >>
   /\ ~last.checks[Len(last.checks)].answer)
  => /\ last.published
     /\ last.publishedText = last.checks[Len(last.checks)].content


\* C31: a mention is recorded in replied_mentions only if a reply to it was
\* published: checkLatestMentions stores no row for a mention whose
\* replyToTweet returned without posting.
MentionRecordedOnlyIfReplied ==
  last.op = "checkLatestMentions" =>
    \A i \in DOMAIN last.outcomes :
      last.outcomes[i].recorded => last.outcomes[i].published

\* C32: no mention is replied to more than once: over any number of
\* engagement cycles, the reads and writes of replied_mentions failing or
\* not, checkLatestMentions publishes at most one reply per mention id.
OneReplyPerMention ==
  \A m \in BagToSet(mentionReplies) : CopiesIn(m, mentionReplies) <= 1


\* the publish paths of the API variant that ask hasTweet first
GuardedOps == {"postTweet", "replyToTweet", "postRandomTweet"}

IsPrefix(s, t) == Len(s) <= Len(t) /\ SubSeq(t, 1, Len(s)) = s

\* C34: the session history is append-only under concurrency: for any
\* interleaving of two calls of updateSessionMessages for one username the
\* stored list holds afterwards every message of both calls, and the
\* messages stored before are never dropped or reordered.
SessionAppendOnly ==
  [][\A u \in DOMAIN session :
       u \in DOMAIN session' /\ IsPrefix(session[u], session'[u])]_vars


\* C35: the exact tier is globally scoped: searchValidCachedMemory and
\* addOrUpdateLongTermMemory key the rows by the normalized query alone, so a
\* lookup by any actor returns the row any other actor admitted for the same
\* normalized query, there is at most one exact row per normalized query,
\* and its username field is that of the most recent admitter.
ExactTierGloballyScoped ==
  /\ \A k \in DOMAIN longTerm : longTerm[k].query = k
  /\ (last.op = "generateReply"
        /\ normalizeQuery(last.input) \in DOMAIN last.before.longTerm) =>
       /\ last.source = "mongo"
       /\ last.result = last.before.longTerm[normalizeQuery(last.input)].response
       /\ longTerm = last.before.longTerm
  /\ (last.op = "admit" /\ last.error = "none") =>
       /\ longTerm[normalizeQuery(last.input)].username = last.username
       /\ DOMAIN longTerm = DOMAIN last.before.longTerm \cup {normalizeQuery(last.input)}

\* an actor was answered with the row another actor admitted
ExactTierGloballyScopedSeen ==
  /\ last.op = "generateReply"
  /\ last.source = "mongo"
  /\ normalizeQuery(last.input) \in DOMAIN last.before.longTerm
  /\ last.before.longTerm[normalizeQuery(last.input)].username # last.username


\* C36: the posting quota of the Puppeteer loop: within a batch window of
\* three hours maybeTweet publishes at most 5 tweets; the counter
\* tweetsPosted is always between 0 and 5 and is reset to 0 only when at
\* least three hours have passed since the start of the window.
PostingQuota ==
  /\ [](/\ humanLoop.tweetsPosted \in 0..MaxTweetsPerBatch
        /\ puppetLoop.windowPosts <= MaxTweetsPerBatch)
  /\ [][humanLoop'.lastTweetBatch # humanLoop.lastTweetBatch
          \/ humanLoop'.tweetsPosted < humanLoop.tweetsPosted
        => /\ now - humanLoop.lastTweetBatch >= TweetBatchTicks
           /\ humanLoop'.lastTweetBatch = now
           /\ humanLoop'.tweetsPosted \in {0, 1}]_vars

\* the quota of a window is used up and a round has published nothing
PostingQuotaSeen ==
  /\ last.op = "humanLoopRound"
  /\ last.batchBefore.tweetsPosted = MaxTweetsPerBatch
  /\ humanLoop.tweetsPosted = MaxTweetsPerBatch
  /\ puppetLoop.windowPosts = MaxTweetsPerBatch
  /\ ~last.published
  /\ last.checks = << >>


\* C37: the API loop triggers a batch of random posts on its first verified
\* cycle and afterwards only when at least 3 hours have passed since the
\* previous batch was triggered, and every triggered batch makes exactly 5
\* calls of postRandomTweet
BatchScheduling ==
  [][/\ (apiLoop.pc = "verify" /\ apiLoop'.verified /\ apiLoop.batches = 0)
          => apiLoop'.pc = "posting"
     /\ (apiLoop'.batches > apiLoop.batches /\ apiLoop.batches > 0)
          => now - apiLoop.batchStart >= RandomPostTicks
     /\ (apiLoop.pc = "posting" /\ apiLoop'.pc # "posting")
          => apiLoop'.attempts = RandomPostCount]_vars


\* what a cycle of the loop can publish to or write
LoopStores ==
  <<tweets, posted, users, pinecone, longTerm, session, repliedMentions,
    mentionReplies>>

\* C38: the API loop posts and engages in a cycle only when verifySession
\* and verifyTwitterClient both answered true in that cycle; a cycle in which
\* one of them answered false publishes nothing, writes to no store and
\* starts the next cycle after its 60 second wait
SessionGate ==
  [][/\ (apiLoop.pc = "verify" /\ apiLoop'.pc \in {"posting", "engage"})
          => (last'.op = "loopVerify" /\ last'.sessionOk /\ last'.clientOk)
     /\ (apiLoop.pc = "verify" /\ last'.op = "loopVerify"
            /\ ~(last'.sessionOk /\ last'.clientOk))
          => (apiLoop'.pc = "retry" /\ UNCHANGED LoopStores)
     /\ apiLoop.pc = "retry"
          => (apiLoop'.pc = "verify" /\ now' = now /\ UNCHANGED LoopStores)
     /\ LoopStores' # LoopStores
          => (apiLoop.pc \in {"posting", "engage"} /\ apiLoop.verified)]_vars

\* a cycle that was refused after an earlier cycle had published
SessionGateSeen ==
  /\ last.op = "loopRetry"
  /\ apiLoop.cycles >= 2
  /\ posted # EmptyBag


\* C39: after its startup the API loop is never ended by a failure inside a
\* cycle: it never stops and every cycle it begins is followed by another
\* one (up to the last cycle explored)
LoopLiveness ==
  /\ [](apiLoop.pc \in {"verify", "retry", "posting", "engage", "sleep"})
  /\ \A n \in 1..(MaxLoopCycles - 1) :
       (apiLoop.cycles = n) ~> (apiLoop.cycles = n + 1)

\* a second cycle has begun after the batch of the first one was left by a
\* throw
LoopLivenessSeen ==
  /\ apiLoop.cycles = 2
  /\ apiLoop.batches = 2
  /\ apiLoop.batchStart - apiLoop.prevBatchStart < RandomPostTicks

=============================================================================
